---------------------------- MODULE Spec2Model ----------------------------
(***************************************************************************)
(* AION kernel: the daemon scheduler, the bus, the shared topology, the    *)
(* command interpreter and the HTTP status listener (src/src/kernel,       *)
(* src/src/organism, src/src/telemetry, src/src/http).                     *)
(*                                                                         *)
(* Numbers.  Organ health is an f32 in the source.  Here a health h is the *)
(* integer h * Scale, and every operation of the source on it (the blend,  *)
(* the nudges, damage / heal, the 5-decimal save format) is computed       *)
(* exactly on that grid: Scale carries one factor AlphaDen for every blend *)
(* the time horizon allows, so the blend's division is exact.  The f32 NaN *)
(* (which "NaN".parse::<f32>() yields and clamp() passes through) is the   *)
(* value NaN below.  An awareness a is the integer a * AwScale.            *)
(***************************************************************************)
EXTENDS Integers, Sequences, FiniteSets, TLC

---------------------------------------------------------------------------
(* Bounds of the model *)

\* Status blends the time horizon allows (MaxNow) and the precision Scale keeps.
MaxBlends == 1
\* Events of the environment in one run: lines typed on stdin, end of input,
\* HTTP requests, a failed bind, a poisoned guard.
MaxEvents == 2

---------------------------------------------------------------------------
(* Program constants *)

HeartbeatInterval == 1000
StatusInterval == 5000
AiInterval == 2000
SimInterval == 2500
SleepMs == 50
\* alpha = 0.25 = AlphaNum / AlphaDen
AlphaNum == 1
AlphaDen == 4
\* "{:.5}": the saved state keeps 5 decimals
Prec == 100000

RECURSIVE Pow(_, _)
Pow(b, n) == IF n = 0 THEN 1 ELSE b * Pow(b, n - 1)

Scale == Prec * Pow(AlphaDen, MaxBlends)
AwScale == 10 * Scale
\* the run goes on for one heartbeat after the last blend
MaxNow == MaxBlends * StatusInterval + HeartbeatInterval

\* A decimal literal with at most 5 decimals, given as literal * Prec.
Dec(x) == x * (Scale \div Prec)

\* Instant::now() at the top of an iteration is the previous one plus the sleep
\* (at least SleepMs) and the time the daemons took.
LoopPeriods == {20 * SleepMs}

---------------------------------------------------------------------------
(* f32 *)

NaN == -2000000000

\* a subtraction that ignores a negative amount (C39 is tested against it)
FSub_nonneg(a, b) == IF a = NaN \/ b = NaN THEN NaN ELSE IF b < 0 THEN a ELSE a - b

FSub(a, b) == IF a = NaN \/ b = NaN THEN NaN ELSE a - b
FAdd(a, b) == IF a = NaN \/ b = NaN THEN NaN ELSE a + b
\* f32::clamp: NaN stays NaN
FClamp(x, lo, hi) == IF x = NaN THEN NaN ELSE IF x < lo THEN lo ELSE IF x > hi THEN hi ELSE x
\* f32::min: a NaN operand is ignored
FMin(a, b) == IF a = NaN THEN b ELSE IF b = NaN THEN a ELSE IF a < b THEN a ELSE b
\* comparisons with NaN are false
FGe(a, b) == a /= NaN /\ b /= NaN /\ a >= b
FGt(a, b) == a /= NaN /\ b /= NaN /\ a > b

\* Bit-exact f32, where a claim depends on the rounding.  A value x is the integer
\* x * F32One; the grid holds 0 and every f32 of magnitude in [2^-5, 4).
F32One == Pow(2, 28)
\* a mantissa has 24 bits
F32Mant == Pow(2, 24)

\* the distance between neighbouring f32 values around x
RECURSIVE F32Ulp(_, _)
F32Ulp(x, u) == IF x < F32Mant * u THEN u ELSE F32Ulp(x, 2 * u)

\* the f32 nearest to the exact value x + rem / den (0 <= rem < den), ties to even
F32Round(x, rem, den) ==
    LET u == F32Ulp(IF x < 0 THEN -x ELSE x, 1)
        q == x \div u
        r == (x % u) * den + rem
    IN  IF 2 * r > u * den \/ (2 * r = u * den /\ q % 2 = 1) THEN (q + 1) * u ELSE q * u

\* x * 2^n / den by doubling: << integer part, remainder >>
RECURSIVE F32Shift(_, _, _, _)
F32Shift(x, rem, den, n) ==
    IF n = 0 THEN << x, rem >>
    ELSE F32Shift(2 * x + (2 * rem) \div den, (2 * rem) % den, den, n - 1)

\* str::parse::<f32> of a decimal literal d / Prec: d * 2^28 / 10^5 = d * 2^23 / 5^5
F32Parse(d) ==
    LET den == Prec \div Pow(2, 5)
        v == F32Shift(d \div den, d % den, den, 23)
    IN  F32Round(v[1], v[2], den)

F32Clamp01(x) == IF x < 0 THEN 0 ELSE IF x > F32One THEN F32One ELSE x

\* a blend with the weights of current and target exchanged (C4 is tested against it)
blend_health_f32_exchanged(current, target) ==
    LET c == F32Clamp01(current)
        t == F32Clamp01(target)
        k == AlphaDen - AlphaNum
        prod == F32Round((k * t) \div AlphaDen, (k * t) % AlphaDen, AlphaDen)
    IN  F32Round(prod + c \div AlphaDen, c % AlphaDen, AlphaDen)

\* (1.0 - alpha) * c + alpha * t in f32: the product by 0.75 is rounded, the product
\* by 0.25 is exact, the sum is rounded
blend_health_f32(current, target) ==
    LET c == F32Clamp01(current)
        t == F32Clamp01(target)
        k == AlphaDen - AlphaNum
        prod == F32Round((k * c) \div AlphaDen, (k * c) % AlphaDen, AlphaDen)
    IN  F32Round(prod + t \div AlphaDen, t % AlphaDen, AlphaDen)

\* (organ.health - amount).clamp(0.0, 1.0) and (organ.health + amount).clamp(0.0, 1.0)
damage_f32(health, amount) == F32Clamp01(F32Round(health - amount, 0, 1))
\* a heal that does not clamp (C7 is tested against it)
heal_f32_unclamped(health, amount) == F32Round(health + amount, 0, 1)
heal_f32(health, amount) == F32Clamp01(F32Round(health + amount, 0, 1))

---------------------------------------------------------------------------
(* organism *)

OrganKind == {"Cortex", "Memory", "IoBridge", "SensorHub", "MotorControl", "Network", "Storage"}

sample_topology ==
    [ nodes  |-> << [id |-> 1, label |-> "core-0", role |-> "primary brain"],
                    [id |-> 2, label |-> "io-0", role |-> "peripheral bridge"] >>,
      organs |-> << [id |-> 1, node |-> 1, kind |-> "Cortex", health |-> Dec(98000)],
                    [id |-> 2, node |-> 1, kind |-> "Memory", health |-> Dec(99000)],
                    [id |-> 3, node |-> 2, kind |-> "IoBridge", health |-> Dec(97000)] >> ]

\* the last organ of a kind decides (the loop overwrites), 1.0 when there is none
RECURSIVE LastHealth(_, _, _)
LastHealth(organs, kind, dflt) ==
    IF organs = << >> THEN dflt
    ELSE LET o == organs[Len(organs)] IN
         IF o.kind = kind THEN o.health
         ELSE LastHealth(SubSeq(organs, 1, Len(organs) - 1), kind, dflt)

\* the weights 0.5 / 0.3 / 0.2 in place of 0.4 / 0.3 / 0.3 (C2 is tested against them)
compute_awareness_532(topo) ==
    LET cortex_h == LastHealth(topo.organs, "Cortex", Scale)
        memory_h == LastHealth(topo.organs, "Memory", Scale)
        io_h     == LastHealth(topo.organs, "IoBridge", Scale)
    IN  IF cortex_h = NaN \/ memory_h = NaN \/ io_h = NaN THEN NaN
        ELSE FClamp(5 * cortex_h + 3 * memory_h + 2 * io_h, 0, AwScale)

\* an awareness that falls as the cortex recovers (C16 is tested against it)
compute_awareness_inverted(topo) ==
    LET cortex_h == LastHealth(topo.organs, "Cortex", Scale)
        memory_h == LastHealth(topo.organs, "Memory", Scale)
        io_h     == LastHealth(topo.organs, "IoBridge", Scale)
    IN  IF cortex_h = NaN \/ memory_h = NaN \/ io_h = NaN THEN NaN
        ELSE FClamp(4 * (Scale - cortex_h) + 3 * memory_h + 3 * io_h, 0, AwScale)

\* awareness * AwScale = 0.4 * cortex + 0.3 * memory + 0.3 * io-bridge, clamped
compute_awareness(topo) ==
    LET cortex_h == LastHealth(topo.organs, "Cortex", Scale)
        memory_h == LastHealth(topo.organs, "Memory", Scale)
        io_h     == LastHealth(topo.organs, "IoBridge", Scale)
    IN  IF cortex_h = NaN \/ memory_h = NaN \/ io_h = NaN THEN NaN
        ELSE FClamp(4 * cortex_h + 3 * memory_h + 3 * io_h, 0, AwScale)

\* the breakpoints 0.85, 0.60, 0.35 on a score of scale sc
Band(v, sc) ==
    IF FGe(v, (85 * sc) \div 100) THEN 4
    ELSE IF FGe(v, (60 * sc) \div 100) THEN 3
    ELSE IF FGe(v, (35 * sc) \div 100) THEN 2
    ELSE IF FGt(v, 0) THEN 1
    ELSE 0

describe_awareness(a) ==
    LET v == FClamp(a, 0, AwScale) IN
    CASE Band(v, AwScale) = 4 -> "optimal"
      [] Band(v, AwScale) = 3 -> "stable"
      [] Band(v, AwScale) = 2 -> "impaired"
      [] Band(v, AwScale) = 1 -> "critical"
      [] OTHER -> "unconscious"

classify_health(h) ==
    CASE Band(h, Scale) = 4 -> "ok"
      [] Band(h, Scale) = 3 -> "degraded"
      [] Band(h, Scale) = 2 -> "impaired"
      [] Band(h, Scale) = 1 -> "critical"
      [] OTHER -> "failed"

RECURSIVE FoldMin(_, _)
FoldMin(organs, acc) ==
    IF organs = << >> THEN acc
    ELSE FoldMin(Tail(organs), FMin(acc, Head(organs).health))

\* the health of the first organ in place of the minimum (C20 is tested against it)
compute_overall_health_first(topo) ==
    IF topo.organs = << >> THEN Scale ELSE FMin(Scale, topo.organs[1].health)

compute_overall_health(topo) ==
    IF topo.organs = << >> THEN Scale ELSE FoldMin(topo.organs, Scale)

---------------------------------------------------------------------------
(* telemetry *)

\* (tick % 60) / 60: a phase p is the integer p * PhaseLen
PhaseLen == 60
\* a temperature x (degrees C) is the integer x * MetricScale; a ratio (of memory
\* used, of packets lost) is on the grid of the healths
MetricScale == 20 * PhaseLen
Metric(x100) == (x100 * MetricScale) \div 100
\* (cpu_temp_c - 60.0) / 40.0 on the health grid
TempToPenalty(x) == (x * (Scale \div 400)) \div (3 * 40)

\* RealTelemetry: used / total memory, as the host reports it
RealRamRatios == {Dec(30000), Dec(75003), Dec(95000), Scale}

next_phase(tick) == (tick + 1) % PhaseLen

\* SimulatedTelemetry: each of the cpu and memory reads advances the phase
sim_cpu_temp_c(level, p) ==
    CASE level = "Off"  -> Metric(4500)
      [] level = "Low"  -> Metric(4500) + (p * 10 * MetricScale) \div PhaseLen
      [] level = "High" -> Metric(5500) + (p * 25 * MetricScale) \div PhaseLen

sim_ram_used_ratio(level, p) ==
    CASE level = "Off"  -> Dec(30000)
      [] level = "Low"  -> Dec(35000) + (p * Dec(15000)) \div PhaseLen
      [] level = "High" -> Dec(60000) + (p * Dec(35000)) \div PhaseLen

\* the readings one status tick can take: [cpu_temp_c, ram_used_ratio, net_packet_loss, tick]
Readings(mode, tele) ==
    IF mode = "Real"
    THEN { [cpu_temp_c |-> Metric(5000), ram_used_ratio |-> r, net_packet_loss |-> 0,
            tick |-> tele.tick] : r \in RealRamRatios }
    ELSE { [cpu_temp_c |-> sim_cpu_temp_c(tele.level, next_phase(tele.tick)),
            ram_used_ratio |-> sim_ram_used_ratio(tele.level, next_phase(tele.tick + 1)),
            net_packet_loss |-> 0,
            tick |-> tele.tick + 2] }

clamp01(x) == IF x < 0 THEN 0 ELSE IF x > Scale THEN Scale ELSE x

Min(a, b) == IF a < b THEN a ELSE b

compute_cortex_health(m) ==
    LET temp_penalty == IF m.cpu_temp_c <= Metric(6000) THEN 0
                        ELSE Min(TempToPenalty(m.cpu_temp_c - Metric(6000)),
                                 (6 * Scale) \div 10)
    IN  clamp01(Scale - temp_penalty)

compute_memory_health(m) ==
    LET ram_penalty == IF m.ram_used_ratio <= Dec(75000) THEN 0
                       ELSE Min(m.ram_used_ratio - Dec(75000), (3 * Scale) \div 10)
    IN  clamp01(Scale - ram_penalty)

compute_iobridge_health(m) ==
    LET loss_penalty == Min(m.net_packet_loss * 4, (4 * Scale) \div 10)
    IN  clamp01(Scale - loss_penalty)

\* The targets in f32 (units of F32One): the literals 0.6, 0.3, 0.4 and 0.75 are the
\* f32 values nearest to them, and the difference, the quotient, the product and the
\* subtraction from 1.0 are each rounded.  A temperature x is the integer x * F32Deg;
\* between 32 and 124 degrees its difference to 60.0 is exact.
F32Deg == Pow(2, 18)

\* (cpu_temp_c - 60.0) / 40.0: d / 40 in units of F32One is d * 2^7 / 5
temp_penalty_f32(cpu_temp_c) ==
    LET d == cpu_temp_c - 60 * F32Deg
        v == F32Shift(d \div 5, d % 5, 5, 7)
    IN  F32Round(v[1], v[2], 5)

\* a cortex penalty capped at 0.7 (C22 is tested against it)
compute_cortex_health_f32_cap7(cpu_temp_c) ==
    LET temp_penalty == IF cpu_temp_c <= 60 * F32Deg THEN 0
                        ELSE Min(temp_penalty_f32(cpu_temp_c), F32Parse(70000))
    IN  F32Clamp01(F32Round(F32One - temp_penalty, 0, 1))

compute_cortex_health_f32(cpu_temp_c) ==
    LET temp_penalty == IF cpu_temp_c <= 60 * F32Deg THEN 0
                        ELSE Min(temp_penalty_f32(cpu_temp_c), F32Parse(60000))
    IN  F32Clamp01(F32Round(F32One - temp_penalty, 0, 1))

compute_memory_health_f32(ram_used_ratio) ==
    LET ram_penalty == IF ram_used_ratio <= F32Parse(75000) THEN 0
                       ELSE Min(F32Round(ram_used_ratio - F32Parse(75000), 0, 1),
                                F32Parse(30000))
    IN  F32Clamp01(F32Round(F32One - ram_penalty, 0, 1))

compute_iobridge_health_f32(net_packet_loss) ==
    LET loss_penalty == Min(F32Round(net_packet_loss * 4, 0, 1), F32Parse(40000))
    IN  F32Clamp01(F32Round(F32One - loss_penalty, 0, 1))

---------------------------------------------------------------------------
(* kernel: pure parts *)

\* (1 - alpha) * c + alpha * t on the clamped operands
blend_health(current, target) ==
    LET c == FClamp(current, 0, Scale)
        t == FClamp(target, 0, Scale)
    IN  IF c = NaN \/ t = NaN THEN NaN
        ELSE ((AlphaDen - AlphaNum) * c + AlphaNum * t) \div AlphaDen

blend_target(kind, reading) ==
    CASE kind = "Cortex"   -> compute_cortex_health(reading)
      [] kind = "Memory"   -> compute_memory_health(reading)
      [] kind = "IoBridge" -> compute_iobridge_health(reading)
      [] OTHER -> NaN

\* one iteration of the loop of apply_telemetry_to_topology
apply_telemetry_to_organ(organ, reading) ==
    IF organ.kind \in {"Cortex", "Memory", "IoBridge"}
    THEN [organ EXCEPT !.health = blend_health(organ.health, blend_target(organ.kind, reading))]
    ELSE organ

nudge_health(organ, delta) ==
    [organ EXCEPT !.health = FClamp(FAdd(organ.health, delta), 0, Scale)]

\* tokens of a line: a word, or a decimal literal given by its value * Prec
W(s) == [txt |-> s]
N(v) == [num |-> v]
IsNum(tok) == "num" \in DOMAIN tok

to_lowercase(s) ==
    CASE s = "Cortex" -> "cortex"
      [] s = "Memory" -> "memory"
      [] s = "IoBridge" -> "iobridge"
      [] s = "SensorHub" -> "sensorhub"
      [] s = "MotorControl" -> "motorcontrol"
      [] s = "Network" -> "network"
      [] s = "Storage" -> "storage"
      [] s = "NaN" -> "nan"
      [] s = "HIGH" -> "high"
      [] OTHER -> s

\* Option<OrganKind>: << >> is None
parse_organ_kind(tok) ==
    IF IsNum(tok) THEN << >>
    ELSE LET n == to_lowercase(tok.txt) IN
         CASE n = "cortex" -> <<"Cortex">>
           [] n = "memory" -> <<"Memory">>
           [] n \in {"iobridge", "io"} -> <<"IoBridge">>
           [] n = "sensorhub" -> <<"SensorHub">>
           [] n \in {"motorcontrol", "motor"} -> <<"MotorControl">>
           [] n = "network" -> <<"Network">>
           [] n = "storage" -> <<"Storage">>
           [] OTHER -> << >>

\* str::parse::<f32>: << >> is Err; "nan" in any case parses to NaN
parse_f32(tok) ==
    IF IsNum(tok) THEN <<Dec(tok.num)>>
    ELSE IF to_lowercase(tok.txt) = "nan" THEN <<NaN>>
    ELSE << >>

\* "{:.5}" of a health: round to 5 decimals, ties to even
Round5(h) ==
    LET u == Scale \div Prec
        q == h \div u
        r == h % u
    IN  IF 2 * r > u \/ (2 * r = u /\ q % 2 = 1) THEN q + 1 ELSE q

\* "{:.3}" where the source has "{:.5}" (C8 is tested against it)
fmt5_as_3(h) == IF h = NaN THEN W("NaN") ELSE N(100 * (Round5(h) \div 100))

fmt5(h) == IF h = NaN THEN W("NaN") ELSE N(Round5(h))

\* index of the first organ of a kind, 0 when there is none
FirstOfKind(organs, kind) ==
    IF \E i \in 1..Len(organs) : organs[i].kind = kind
    THEN CHOOSE i \in 1..Len(organs) :
            organs[i].kind = kind /\ \A j \in 1..(i - 1) : organs[j].kind /= kind
    ELSE 0

---------------------------------------------------------------------------
(* State *)

VARIABLES
    now,              \* Instant::now() of the current scheduler iteration, ms since boot
    pc,               \* where the scheduler thread is in run_loop's loop
    heartbeat,        \* HeartbeatDaemon   [last_run, counter]
    status,           \* StatusDaemon      [last_run, counter, idx, reading]
    ai,               \* AiDaemon          [last_run, cycle]
    sim,              \* SimulationDaemon  [last_run, tick]
    telemetry,        \* SimulatedTelemetry [level, tick]
    bus,              \* Bus [next_id, log_filter, sim_level, awareness_score, telemetry_mode]
    pulse,            \* the last pulse Bus::emit was called with
    topology,         \* the SystemTopology inside Arc<Mutex<..>>
    topo_owner,       \* which thread holds the topology guard
    topo_poisoned,    \* the topology mutex is poisoned
    metrics_snapshot, \* Option<TelemetrySnapshot>: << >> or <<snapshot>>
    metrics_poisoned, \* the metrics mutex is poisoned
    chan,             \* the mpsc channel of command lines
    stdin_open,       \* the producer thread still holds the channel's sender
    file,             \* aion_state.txt [exists, lines]
    http,             \* the listener thread [pc, url, holds (the guard of the match's arm),
                      \* reply (the response built), health_score, ..., awareness_label]
    response,         \* the last response the listener sent
    events,           \* events of the environment so far
    committed,        \* history: the organs when a writer last released the topology guard
    saved,            \* history: << >>, or <<organs>> as of the last successful save
    notified,         \* history: the disconnect notice has been emitted
    call              \* a function applied on its own to given arguments: [fn, arguments, results]

vars == << now, pc, heartbeat, status, ai, sim, telemetry, bus, pulse, topology,
           topo_owner, topo_poisoned, metrics_snapshot, metrics_poisoned, chan,
           stdin_open, file, http, response, events, committed, saved, notified, call >>

\* all of the program's state
program_vars == << now, pc, heartbeat, status, ai, sim, telemetry, bus, pulse, topology,
                   topo_owner, topo_poisoned, metrics_snapshot, metrics_poisoned, chan,
                   stdin_open, file, http, response, events, committed, saved, notified >>

sched_vars == << now, pc, heartbeat, status, ai, sim, telemetry, bus, pulse >>
daemon_vars == << heartbeat, status, ai, sim, telemetry >>
lock_vars == << topo_owner, topo_poisoned, metrics_poisoned >>
http_vars == << http, response >>
env_vars == << chan, stdin_open, events >>

NoCall == [fn |-> "none"]

NoPulse == [kind |-> "None", id |-> 0, source |-> "", msg |-> [text |-> ""], printed |-> FALSE]
NoReading == [cpu_temp_c |-> 0, ram_used_ratio |-> 0, net_packet_loss |-> 0, tick |-> 0]
NoSnapshot == [health_score |-> 0, health_label |-> "", awareness_score |-> 0, awareness_label |-> ""]
NoResponse == [code |-> 0, body |-> ""]

\* a file some other program (or an editor) left where the state is saved
ForeignFile ==
    << << W("Bogus"), N(50000) >>,
       << W("Cortex"), W("abc") >>,
       << W("Memory"), N(-50000) >>,
       << >>,
       << W("cortex"), N(0), W("trailing") >>,
       << W("Storage"), N(50000) >>,
       << W("IoBridge") >>,
       << W("IoBridge"), W("NaN") >> >>

\* (a run without the file is the run in which reading it fails)
InitFiles == { [exists |-> TRUE, lines |-> ForeignFile] }

\* Bus::new
BusNew == [next_id |-> 0, log_filter |-> "CommandsOnly", sim_level |-> "Low",
           awareness_score |-> AwScale, telemetry_mode |-> "Simulated"]

ProgramInit ==
    /\ now = 0
    /\ pc = "heartbeat"
    /\ heartbeat = [last_run |-> 0, counter |-> 0]
    /\ status = [last_run |-> 0, counter |-> 0, idx |-> 0, reading |-> NoReading]
    /\ ai = [last_run |-> 0, cycle |-> 0]
    /\ sim = [last_run |-> 0, tick |-> 0]
    /\ telemetry = [level |-> "Low", tick |-> 0]
    /\ \E mode \in {"Simulated", "Real"} : bus = [BusNew EXCEPT !.telemetry_mode = mode]
    /\ pulse = NoPulse
    /\ topology = sample_topology
    /\ topo_owner = "none"
    /\ topo_poisoned = FALSE
    /\ metrics_snapshot = << >>
    /\ metrics_poisoned = FALSE
    /\ chan = << >>
    /\ stdin_open = TRUE
    /\ file \in InitFiles
    /\ http = [pc |-> "bind", url |-> "", holds |-> "none", reply |-> NoResponse] @@ NoSnapshot
    /\ response = NoResponse
    /\ events = 0
    /\ committed = sample_topology.organs
    /\ saved = << >>
    /\ notified = FALSE

Init == ProgramInit /\ call = NoCall

\* a bus that numbers only every other pulse (C19 is tested against it)
Emitted_every_other(b) == [b EXCEPT !.next_id = @ + (1 - (@ % 2))]

\* Bus::emit: the bus after it, and the pulse it was called with
Emitted(b) == [b EXCEPT !.next_id = @ + 1]
Pulse(b, kind, source, msg) ==
    [kind |-> kind, id |-> b.next_id + 1, source |-> source, msg |-> msg,
     printed |-> CASE b.log_filter = "All" -> TRUE
                   [] b.log_filter = "CommandsOnly" -> kind = "Command"
                   [] b.log_filter = "Silent" -> FALSE]

Running == pc /= "exited"

---------------------------------------------------------------------------
(* The scheduler thread: run_loop's loop, one daemon tick after another *)

\* a Heartbeat daemon without its gate: it beats on every iteration (C33 is tested
\* against it)
HeartbeatTick_ungated ==
    /\ pc = "heartbeat"
    /\ heartbeat' = [last_run |-> now, counter |-> heartbeat.counter + 1]
    /\ bus' = Emitted(bus)
    /\ pulse' = Pulse(bus, "Heartbeat", "heartbeat",
                      [text |-> "beat", n |-> heartbeat.counter + 1])
    /\ pc' = "status"
    /\ UNCHANGED << now, status, ai, sim, telemetry, topology, metrics_snapshot, file,
                    committed, saved >>
    /\ UNCHANGED << lock_vars, http_vars, env_vars, call, notified >>

HeartbeatTick ==
    /\ pc = "heartbeat"
    /\ IF now - heartbeat.last_run >= HeartbeatInterval
       THEN /\ heartbeat' = [last_run |-> now, counter |-> heartbeat.counter + 1]
            /\ bus' = Emitted(bus)
            /\ pulse' = Pulse(bus, "Heartbeat", "heartbeat",
                              [text |-> "beat", n |-> heartbeat.counter + 1])
       ELSE UNCHANGED << heartbeat, bus, pulse >>
    /\ pc' = "status"
    /\ UNCHANGED << now, status, ai, sim, telemetry, topology, metrics_snapshot, file,
                    committed, saved >>
    /\ UNCHANGED << lock_vars, http_vars, env_vars, call, notified >>

\* StatusDaemon::tick up to the topology lock: the gate, the telemetry reads, the snapshot
StatusBegin ==
    /\ pc = "status"
    /\ IF now - status.last_run < StatusInterval
       THEN /\ pc' = "ai"
            /\ UNCHANGED << status, telemetry, metrics_snapshot >>
       ELSE \E r \in Readings(bus.telemetry_mode, telemetry) :
            /\ http.holds /= "metrics"
            /\ status' = [status EXCEPT !.counter = @ + 1, !.last_run = now, !.reading = r]
            /\ telemetry' = [telemetry EXCEPT !.tick = r.tick]
            /\ metrics_snapshot' = IF metrics_poisoned THEN metrics_snapshot
                                   ELSE << [cpu_temp_c |-> r.cpu_temp_c,
                                            ram_used_ratio |-> r.ram_used_ratio,
                                            net_packet_loss |-> r.net_packet_loss] >>
            /\ pc' = "status_lock"
    /\ UNCHANGED << now, heartbeat, ai, sim, bus, pulse, topology, file, committed, saved >>
    /\ UNCHANGED << lock_vars, http_vars, env_vars, call, notified >>

\* self.topology.lock(): blocks while the listener holds the guard
StatusLock ==
    /\ pc = "status_lock"
    /\ topo_owner = "none"
    /\ IF topo_poisoned
       THEN /\ bus' = Emitted(bus)
            /\ pulse' = Pulse(bus, "Status", "status",
                              [text |-> "status tick: failed to lock topology"])
            /\ pc' = "ai"
            /\ UNCHANGED << status, topo_owner >>
       ELSE /\ topo_owner' = "sched"
            /\ status' = [status EXCEPT !.idx = 1]
            /\ pc' = "status_blend"
            /\ UNCHANGED << bus, pulse >>
    /\ UNCHANGED << now, heartbeat, ai, sim, telemetry, topology, metrics_snapshot, file,
                    committed, saved, topo_poisoned, metrics_poisoned >>
    /\ UNCHANGED << http_vars, env_vars, call, notified >>

\* apply_telemetry_to_topology: one organ per step, then the rest of the tick
StatusBlend ==
    /\ pc = "status_blend"
    /\ status.idx <= Len(topology.organs)
    /\ topology' = [topology EXCEPT !.organs[status.idx] =
                        apply_telemetry_to_organ(@, status.reading)]
    /\ status' = [status EXCEPT !.idx = @ + 1]
    /\ UNCHANGED << now, pc, heartbeat, ai, sim, telemetry, bus, pulse, metrics_snapshot,
                    file, committed, saved >>
    /\ UNCHANGED << lock_vars, http_vars, env_vars, call, notified >>

StatusPublish ==
    /\ pc = "status_blend"
    /\ status.idx > Len(topology.organs)
    /\ http.holds /= "memory"
    /\ LET awareness == compute_awareness(topology)
           overall_health == compute_overall_health(topology)
       IN  /\ bus' = Emitted([bus EXCEPT !.awareness_score = awareness])
           /\ pulse' = Pulse(bus, "Status", "status",
                             [text |-> "status tick", n |-> status.counter,
                              health |-> overall_health,
                              health_label |-> classify_health(overall_health),
                              awareness |-> awareness,
                              awareness_label |-> describe_awareness(awareness)])
    /\ topo_owner' = "none"
    /\ committed' = topology.organs
    /\ status' = [status EXCEPT !.idx = 0]
    /\ pc' = "ai"
    /\ UNCHANGED << now, heartbeat, ai, sim, telemetry, topology, metrics_snapshot, file,
                    saved, topo_poisoned, metrics_poisoned >>
    /\ UNCHANGED << http_vars, env_vars, call, notified >>

\* the policy of AiDaemon::tick and whether it switches the simulation off
ai_policy(awareness) ==
    CASE Band(awareness, AwScale) = 4 -> "policy=push_capacity"
      [] Band(awareness, AwScale) = 3 -> "policy=maintain_load"
      [] Band(awareness, AwScale) = 2 -> "policy=reduce_load"
      [] Band(awareness, AwScale) = 1 -> "policy=protect_core(sim_off)"
      [] OTHER -> "policy=recover_offline"

\* a policy without the reflex (C5 is tested against it)
ai_sim_level_unchanged(awareness, level) == level

\* a reflex that fires in the impaired band too (C25 is tested against it)
ai_sim_level_impaired(awareness, level) ==
    IF Band(awareness, AwScale) \in {1, 2} THEN "Off" ELSE level

ai_sim_level(awareness, level) ==
    IF Band(awareness, AwScale) = 1 THEN "Off" ELSE level

\* the awareness AiDaemon::tick works with
ai_awareness ==
    IF topo_poisoned THEN bus.awareness_score ELSE compute_awareness(topology)

\* a policy that restores the first organ in the critical band (C26 is tested against it)
AiTick_restoring ==
    /\ pc = "ai"
    /\ IF now - ai.last_run < AiInterval
       THEN UNCHANGED << ai, bus, pulse, topology >>
       ELSE /\ topo_owner = "none"
            /\ http.holds /= "memory"
            /\ ai' = [last_run |-> now, cycle |-> ai.cycle + 1]
            /\ topology' = IF Band(ai_awareness, AwScale) = 1
                           THEN [topology EXCEPT !.organs[1].health = Scale]
                           ELSE topology
            /\ bus' = Emitted([bus EXCEPT !.sim_level = ai_sim_level(ai_awareness, @)])
            /\ pulse' = Pulse(bus, "Ai", "ai-cortex",
                              [text |-> "cortex cycle", n |-> ai.cycle + 1,
                               awareness |-> ai_awareness,
                               awareness_label |-> describe_awareness(ai_awareness),
                               policy |-> ai_policy(ai_awareness)])
    /\ pc' = "sim"
    /\ UNCHANGED << now, heartbeat, status, sim, telemetry, metrics_snapshot,
                    file, committed, saved >>
    /\ UNCHANGED << lock_vars, http_vars, env_vars, call, notified >>

AiTick ==
    /\ pc = "ai"
    /\ IF now - ai.last_run < AiInterval
       THEN UNCHANGED << ai, bus, pulse >>
       ELSE /\ topo_owner = "none"
            /\ http.holds /= "memory"
            /\ ai' = [last_run |-> now, cycle |-> ai.cycle + 1]
            /\ bus' = Emitted([bus EXCEPT !.sim_level = ai_sim_level(ai_awareness, @)])
            /\ pulse' = Pulse(bus, "Ai", "ai-cortex",
                              [text |-> "cortex cycle", n |-> ai.cycle + 1,
                               awareness |-> ai_awareness,
                               awareness_label |-> describe_awareness(ai_awareness),
                               policy |-> ai_policy(ai_awareness)])
    /\ pc' = "sim"
    /\ UNCHANGED << now, heartbeat, status, sim, telemetry, topology, metrics_snapshot,
                    file, committed, saved >>
    /\ UNCHANGED << lock_vars, http_vars, env_vars, call, notified >>

\* a schedule with the stress and the recovery exchanged (C24 is tested against it)
sim_delta_exchanged(level, tick) ==
    CASE level = "Low"  -> IF tick % 5 /= 0 THEN << Dec(2000), "recovery" >>
                           ELSE << -Dec(1000), "stress" >>
      [] level = "High" -> IF tick % 3 /= 0 THEN << Dec(3000), "recovery" >>
                           ELSE << -Dec(4000), "stress" >>
      [] level = "Off"  -> << >>

\* (delta, label) of SimulationDaemon::tick; << >> where the match returns
sim_delta(level, tick) ==
    CASE level = "Low"  -> IF tick % 5 = 0 THEN << Dec(2000), "recovery" >>
                           ELSE << -Dec(1000), "stress" >>
      [] level = "High" -> IF tick % 3 = 0 THEN << Dec(3000), "recovery" >>
                           ELSE << -Dec(4000), "stress" >>
      [] level = "Off"  -> << >>

\* an index one organ further (C38 is tested against it)
sim_index_shifted(tick, organs) == ((tick + 1) % Len(organs)) + 1

\* idx = self.tick % topo.organs.len(), as an index from 1
sim_index(tick, organs) == (tick % Len(organs)) + 1

\* a nudge that also turns the organ it touches into a Storage organ (C31 is tested
\* against it)
sim_nudge_rekinding(level, tick, organs) ==
    [organs EXCEPT ![sim_index(tick, organs)] =
        [nudge_health(@, sim_delta(level, tick)[1]) EXCEPT !.kind = "Storage"]]

\* the organs after the nudge of the tick numbered tick (the counter once incremented)
sim_nudge(level, tick, organs) ==
    [organs EXCEPT ![sim_index(tick, organs)] = nudge_health(@, sim_delta(level, tick)[1])]

\* a simulation that reports the ticks on which it is Off (C23 is tested against it)
SimTick_reporting_off ==
    /\ pc = "sim"
    /\ IF now - sim.last_run < SimInterval
       THEN UNCHANGED << sim, topology, committed, bus, pulse >>
       ELSE /\ sim' = [last_run |-> now, tick |-> sim.tick + 1]
            /\ IF bus.sim_level = "Off"
               THEN /\ bus' = Emitted(bus)
                    /\ pulse' = Pulse(bus, "Sim", "sim", [text |-> "idle"])
                    /\ UNCHANGED << topology, committed >>
               ELSE /\ topo_owner = "none"
                    /\ IF topo_poisoned \/ topology.organs = << >>
                       THEN UNCHANGED << topology, committed, bus, pulse >>
                       ELSE LET d == sim_delta(bus.sim_level, sim.tick + 1)
                                new == sim_nudge(bus.sim_level, sim.tick + 1, topology.organs)
                                organ == new[sim_index(sim.tick + 1, topology.organs)]
                            IN  /\ topology' = [topology EXCEPT !.organs = new]
                                /\ committed' = topology'.organs
                                /\ bus' = Emitted(bus)
                                /\ pulse' = Pulse(bus, "Sim", "sim",
                                                  [text |-> d[2], kind |-> organ.kind,
                                                   health |-> organ.health])
    /\ pc' = "command"
    /\ UNCHANGED << now, heartbeat, status, ai, telemetry, metrics_snapshot, file, saved >>
    /\ UNCHANGED << lock_vars, http_vars, env_vars, call, notified >>

\* a simulation that publishes the awareness of the topology it has nudged (C37 is
\* tested against it)
SimTick_publishing ==
    /\ pc = "sim"
    /\ IF now - sim.last_run < SimInterval
       THEN UNCHANGED << sim, topology, committed, bus, pulse >>
       ELSE /\ sim' = [last_run |-> now, tick |-> sim.tick + 1]
            /\ IF bus.sim_level = "Off"
               THEN UNCHANGED << topology, committed, bus, pulse >>
               ELSE /\ topo_owner = "none"
                    /\ IF topo_poisoned \/ topology.organs = << >>
                       THEN UNCHANGED << topology, committed, bus, pulse >>
                       ELSE LET d == sim_delta(bus.sim_level, sim.tick + 1)
                                new == sim_nudge(bus.sim_level, sim.tick + 1, topology.organs)
                                organ == new[sim_index(sim.tick + 1, topology.organs)]
                            IN  /\ topology' = [topology EXCEPT !.organs = new]
                                /\ committed' = topology'.organs
                                /\ bus' = Emitted([bus EXCEPT !.awareness_score =
                                                      compute_awareness([organs |-> new])])
                                /\ pulse' = Pulse(bus, "Sim", "sim",
                                                  [text |-> d[2], kind |-> organ.kind,
                                                   health |-> organ.health])
    /\ pc' = "command"
    /\ UNCHANGED << now, heartbeat, status, ai, telemetry, metrics_snapshot, file, saved >>
    /\ UNCHANGED << lock_vars, http_vars, env_vars, call, notified >>

SimTick ==
    /\ pc = "sim"
    /\ IF now - sim.last_run < SimInterval
       THEN UNCHANGED << sim, topology, committed, bus, pulse >>
       ELSE /\ sim' = [last_run |-> now, tick |-> sim.tick + 1]
            /\ IF bus.sim_level = "Off"
               THEN UNCHANGED << topology, committed, bus, pulse >>
               ELSE /\ topo_owner = "none"
                    /\ IF topo_poisoned \/ topology.organs = << >>
                       THEN UNCHANGED << topology, committed, bus, pulse >>
                       ELSE LET d == sim_delta(bus.sim_level, sim.tick + 1)
                                new == sim_nudge(bus.sim_level, sim.tick + 1, topology.organs)
                                organ == new[sim_index(sim.tick + 1, topology.organs)]
                            IN  /\ topology' = [topology EXCEPT !.organs = new]
                                /\ committed' = topology'.organs
                                /\ bus' = Emitted(bus)
                                /\ pulse' = Pulse(bus, "Sim", "sim",
                                                  [text |-> d[2], kind |-> organ.kind,
                                                   health |-> organ.health])
    /\ pc' = "command"
    /\ UNCHANGED << now, heartbeat, status, ai, telemetry, metrics_snapshot, file, saved >>
    /\ UNCHANGED << lock_vars, http_vars, env_vars, call, notified >>

\* a loop whose next iteration starts at the Status daemon (C32 is tested against it)
NextIteration_past_heartbeat ==
    /\ pc = "sleep"
    /\ \E d \in LoopPeriods :
        /\ now + d <= MaxNow
        /\ now' = now + d
    /\ pc' = "status"
    /\ UNCHANGED << heartbeat, status, ai, sim, telemetry, bus, pulse, topology,
                    metrics_snapshot, file, committed, saved >>
    /\ UNCHANGED << lock_vars, http_vars, env_vars, call, notified >>

\* thread::sleep, then Instant::now() of the next iteration
NextIteration ==
    /\ pc = "sleep"
    /\ \E d \in LoopPeriods :
        /\ now + d <= MaxNow
        /\ now' = now + d
    /\ pc' = "heartbeat"
    /\ UNCHANGED << heartbeat, status, ai, sim, telemetry, bus, pulse, topology,
                    metrics_snapshot, file, committed, saved >>
    /\ UNCHANGED << lock_vars, http_vars, env_vars, call, notified >>

---------------------------------------------------------------------------
(* CommandDaemon *)

\* the lines typed on stdin, trimmed and split at whitespace
ReportLines ==
    { << W(c) >> : c \in {"help", "status", "topology", "nodes", "organs", "peripherals",
                          "health", "awareness", "alerts", "mode", "metrics"} }
      \cup { << W("sim"), W("status") >> }

AdjustLines ==
    { << W(verb), W(organ), amount >> :
        verb \in {"damage", "heal"},
        organ \in {"cortex", "Memory", "io"},
        amount \in {N(20000), N(200000)} }
      \cup { << W("damage"), W("cortex"), N(-50000) >>,
             << W("heal"), W("Memory"), N(-50000) >>,
             << W("damage"), W("cortex"), W("NaN") >>,
             << W("heal"), W("io"), W("nan") >> }

RejectedLines ==
    { << W("damage"), W("cortex") >>,
      << W("heal"), W("cortex"), N(20000), W("now") >>,
      << W("damage"), W("cortex"), W("lots") >>,
      << W("heal"), W("io"), W("abc") >>,
      << W("damage"), W("liver"), N(20000) >>,
      << W("heal"), W("liver"), N(20000) >>,
      << W("damage"), W("storage"), N(20000) >>,
      << W("heal"), W("Storage"), N(20000) >>,
      << W("sim") >>,
      << W("sim"), W("level") >>,
      << W("sim"), W("level"), W("medium") >>,
      << W("logs") >>,
      << W("logs"), W("verbose") >>,
      << W("save") >>,
      << W("load"), W("file") >>,
      << W("frobnicate") >>,
      << N(20000) >> }

ControlLines ==
    { << W("sim"), W("level"), W(l) >> : l \in {"off", "low", "HIGH"} }
      \cup { << W("logs"), W(f) >> : f \in {"all", "commands", "silent", "off"} }
      \cup { << W("save"), W("state") >>, << W("load"), W("state") >>,
             << W("mem") >>, << W("mem"), W("set"), W("k"), W("v") >>,
             << W("quit") >>, << W("quit"), W("now") >> }

Lines == ReportLines \cup AdjustLines \cup RejectedLines \cup ControlLines

ReportArms == {"status", "topology", "nodes", "organs", "peripherals", "health",
               "awareness", "alerts"}

\* the arm of the match on parts[0] that CommandDaemon::tick takes
Arm(parts) ==
    LET is(i, w) == Len(parts) >= i /\ parts[i] = W(w)
        first == IF IsNum(parts[1]) THEN "" ELSE parts[1].txt
    IN  CASE first \in ReportArms \cup {"help", "mode", "metrics", "mem", "damage", "heal", "quit"}
                -> first
          [] first = "sim" /\ is(2, "status") -> "sim status"
          [] first = "sim" /\ Len(parts) > 2 /\ is(2, "level") -> "sim level"
          [] first = "save" /\ is(2, "state") -> "save state"
          [] first = "load" /\ is(2, "state") -> "load state"
          [] first = "logs" /\ is(2, "all") -> "logs all"
          [] first = "logs" /\ is(2, "commands") -> "logs commands"
          [] first = "logs" /\ (is(2, "silent") \/ is(2, "off")) -> "logs silent"
          [] OTHER -> "unknown"

\* the checks handle_damage and handle_heal make before they lock the topology:
\* [err |-> message], or [kind, amount]
parse_adjust(parts, verb) ==
    IF Len(parts) /= 3 THEN [err |-> [text |-> "usage: " \o verb \o " <organ> <amount>"]]
    ELSE IF parse_f32(parts[3]) = << >>
         THEN [err |-> [text |-> "invalid amount", arg |-> parts[3]]]
    ELSE IF parse_organ_kind(parts[2]) = << >>
         THEN [err |-> [text |-> "unknown organ", arg |-> parts[2]]]
    ELSE [kind |-> parse_organ_kind(parts[2])[1], amount |-> parse_f32(parts[3])[1]]

Rejected(parts, verb) == "err" \in DOMAIN parse_adjust(parts, verb)

\* a damage that falls on the first organ when the topology has none of the kind
\* (C6 is tested against it)
handle_damage_first_organ(parts, organs, poisoned) ==
    LET p == parse_adjust(parts, "damage") IN
    IF "err" \in DOMAIN p THEN [organs |-> organs, awareness |-> << >>, msg |-> p.err]
    ELSE IF poisoned
         THEN [organs |-> organs, awareness |-> << >>,
               msg |-> [text |-> "failed to lock topology for damage"]]
    ELSE LET i == IF FirstOfKind(organs, p.kind) = 0 THEN 1 ELSE FirstOfKind(organs, p.kind)
             h == FClamp(FSub(organs[i].health, p.amount), 0, Scale)
             new == [organs EXCEPT ![i].health = h]
             a == compute_awareness([organs |-> new])
         IN  [organs |-> new, awareness |-> << a >>,
              msg |-> [text |-> "damaged", kind |-> p.kind, amount |-> p.amount,
                       health |-> h, awareness |-> a,
                       awareness_label |-> describe_awareness(a)]]

\* handle_damage: [organs, awareness (<<a>> when bus.awareness_score is written), msg]
handle_damage(parts, organs, poisoned) ==
    LET p == parse_adjust(parts, "damage") IN
    IF "err" \in DOMAIN p THEN [organs |-> organs, awareness |-> << >>, msg |-> p.err]
    ELSE IF poisoned
         THEN [organs |-> organs, awareness |-> << >>,
               msg |-> [text |-> "failed to lock topology for damage"]]
    ELSE LET i == FirstOfKind(organs, p.kind) IN
         IF i = 0
         THEN [organs |-> organs, awareness |-> << >>,
               msg |-> [text |-> "organ not found in topology", kind |-> p.kind]]
         ELSE LET h == FClamp(FSub(organs[i].health, p.amount), 0, Scale)
                  new == [organs EXCEPT ![i].health = h]
                  a == compute_awareness([organs |-> new])
              IN  [organs |-> new, awareness |-> << a >>,
                   msg |-> [text |-> "damaged", kind |-> p.kind, amount |-> p.amount,
                            health |-> h, awareness |-> a,
                            awareness_label |-> describe_awareness(a)]]

\* a heal that leaves the awareness score of the bus as it was (C18 is tested against it)
handle_heal_stale(parts, organs, poisoned) ==
    LET p == parse_adjust(parts, "heal") IN
    IF "err" \in DOMAIN p THEN [organs |-> organs, awareness |-> << >>, msg |-> p.err]
    ELSE IF poisoned
         THEN [organs |-> organs, awareness |-> << >>,
               msg |-> [text |-> "failed to lock topology for heal"]]
    ELSE LET i == FirstOfKind(organs, p.kind) IN
         IF i = 0
         THEN [organs |-> organs, awareness |-> << >>,
               msg |-> [text |-> "organ not found in topology", kind |-> p.kind]]
         ELSE LET h == FClamp(FAdd(organs[i].health, p.amount), 0, Scale)
                  new == [organs EXCEPT ![i].health = h]
                  a == compute_awareness([organs |-> new])
              IN  [organs |-> new, awareness |-> << >>,
                   msg |-> [text |-> "healed", kind |-> p.kind, amount |-> p.amount,
                            health |-> h, awareness |-> a,
                            awareness_label |-> describe_awareness(a)]]

handle_heal(parts, organs, poisoned) ==
    LET p == parse_adjust(parts, "heal") IN
    IF "err" \in DOMAIN p THEN [organs |-> organs, awareness |-> << >>, msg |-> p.err]
    ELSE IF poisoned
         THEN [organs |-> organs, awareness |-> << >>,
               msg |-> [text |-> "failed to lock topology for heal"]]
    ELSE LET i == FirstOfKind(organs, p.kind) IN
         IF i = 0
         THEN [organs |-> organs, awareness |-> << >>,
               msg |-> [text |-> "organ not found in topology", kind |-> p.kind]]
         ELSE LET h == FClamp(FAdd(organs[i].health, p.amount), 0, Scale)
                  new == [organs EXCEPT ![i].health = h]
                  a == compute_awareness([organs |-> new])
              IN  [organs |-> new, awareness |-> << a >>,
                   msg |-> [text |-> "healed", kind |-> p.kind, amount |-> p.amount,
                            health |-> h, awareness |-> a,
                            awareness_label |-> describe_awareness(a)]]

\* the lines handle_save_state writes: "{:?} {:.5}" of every organ
save_lines(organs) == [i \in 1..Len(organs) |-> << W(organs[i].kind), fmt5(organs[i].health) >>]

\* one line of handle_load_state's loop
load_line(organs, line) ==
    IF Len(line) < 2 THEN organs
    ELSE LET kind == parse_organ_kind(line[1])
             h == parse_f32(line[2])
         IN  IF kind = << >> \/ h = << >> THEN organs
             ELSE LET i == FirstOfKind(organs, kind[1]) IN
                  IF i = 0 THEN organs
                  ELSE [organs EXCEPT ![i].health = FClamp(h[1], 0, Scale)]

RECURSIVE load_lines(_, _)
load_lines(organs, lines) ==
    IF lines = << >> THEN organs
    ELSE load_lines(load_line(organs, Head(lines)), Tail(lines))

\* whether the arm taken for parts locks the topology mutex
locks_topology(parts) ==
    LET arm == Arm(parts) IN
    \/ arm \in ReportArms \cup {"sim status", "save state"}
    \/ arm = "damage" /\ ~Rejected(parts, "damage")
    \/ arm = "heal" /\ ~Rejected(parts, "heal")

\* what every arm leaves alone, and the pulse of the response
CommandFrame ==
    /\ chan' = Tail(chan)
    /\ UNCHANGED << now, daemon_vars, metrics_snapshot, stdin_open, events >>
    /\ UNCHANGED << lock_vars, http_vars, call, notified >>

\* a daemon that drops its responses (C29 is tested against it)
Reply_dropped(b, msg) ==
    /\ bus' = b
    /\ pulse' = pulse

\* a daemon that publishes every response twice (C30 is tested against it)
Reply_twice(b, msg) ==
    /\ bus' = Emitted(Emitted(b))
    /\ pulse' = Pulse(Emitted(b), "Command", "command", msg)

\* Some(msg): bus.emit(PulseKind::Command, self.name(), msg)
Reply(b, msg) ==
    /\ bus' = Emitted(b)
    /\ pulse' = Pulse(b, "Command", "command", msg)

Received(arms) ==
    /\ pc = "command"
    /\ chan /= << >>
    /\ Arm(Head(chan)) \in arms
    /\ locks_topology(Head(chan)) => topo_owner = "none"
    /\ Arm(Head(chan)) = "metrics" => http.holds /= "metrics"
    /\ Arm(Head(chan)) = "mem" => http.holds /= "memory"

\* the arms that only report
CommandReport ==
    /\ Received(ReportArms \cup {"help", "mode", "metrics", "sim status", "mem"})
    /\ LET arm == Arm(Head(chan))
           overall_health == compute_overall_health(topology)
           awareness == compute_awareness(topology)
       IN  Reply(bus,
             CASE arm = "help" -> [text |-> "commands: help, status, topology, ..."]
               [] arm = "mode" -> [text |-> "mode", telemetry |-> bus.telemetry_mode,
                                   sim_level |-> bus.sim_level]
               [] arm = "mem" -> [text |-> "mem"]
               [] arm = "metrics" ->
                    IF metrics_poisoned THEN [text |-> "failed to lock metrics snapshot"]
                    ELSE IF metrics_snapshot = << >> THEN [text |-> "metrics not yet available"]
                    ELSE [text |-> "Metrics snapshot", snap |-> metrics_snapshot[1]]
               [] arm \in ReportArms \cup {"sim status"} /\ topo_poisoned ->
                    [text |-> "failed to lock topology"]
               [] arm = "status" /\ ~topo_poisoned ->
                    [text |-> "manual status", health |-> overall_health,
                     health_label |-> classify_health(overall_health),
                     awareness |-> bus.awareness_score,
                     awareness_label |-> describe_awareness(bus.awareness_score)]
               [] arm = "sim status" /\ ~topo_poisoned ->
                    [text |-> "simulation status", level |-> bus.sim_level,
                     health |-> overall_health, awareness |-> bus.awareness_score]
               [] arm = "awareness" /\ ~topo_poisoned ->
                    [text |-> "awareness index", awareness |-> awareness,
                     awareness_label |-> describe_awareness(awareness)]
               [] arm \in {"topology", "organs", "health", "alerts"} /\ ~topo_poisoned ->
                    [text |-> arm, organs |-> topology.organs]
               [] arm = "nodes" /\ ~topo_poisoned -> [text |-> arm, nodes |-> topology.nodes]
               [] arm = "peripherals" /\ ~topo_poisoned -> [text |-> arm])
    /\ pc' = "command"
    /\ UNCHANGED << topology, file, committed, saved >>
    /\ CommandFrame

CommandAdjust ==
    /\ Received({"damage", "heal"})
    /\ LET r == IF Arm(Head(chan)) = "damage"
                THEN handle_damage(Head(chan), topology.organs, topo_poisoned)
                ELSE handle_heal(Head(chan), topology.organs, topo_poisoned)
       IN  /\ topology' = [topology EXCEPT !.organs = r.organs]
           /\ committed' = IF r.awareness = << >> THEN committed ELSE r.organs
           /\ Reply(IF r.awareness = << >> THEN bus
                    ELSE [bus EXCEPT !.awareness_score = r.awareness[1]], r.msg)
    /\ pc' = "command"
    /\ UNCHANGED << file, saved >>
    /\ CommandFrame

\* handle_save_state: the lock, then fs::write, which the file system may refuse
CommandSave ==
    /\ Received({"save state"})
    /\ \E written \in BOOLEAN :
        IF topo_poisoned
        THEN /\ written
             /\ Reply(bus, [text |-> "failed to lock topology for save"])
             /\ UNCHANGED << file, saved >>
        ELSE IF written
        THEN /\ file' = [exists |-> TRUE, lines |-> save_lines(topology.organs)]
             /\ saved' = << topology.organs >>
             /\ Reply(bus, [text |-> "state saved to aion_state.txt"])
        ELSE /\ Reply(bus, [text |-> "failed to save state"])
             /\ UNCHANGED << file, saved >>
    /\ pc' = "command"
    /\ UNCHANGED << topology, committed >>
    /\ CommandFrame

\* handle_load_state: fs::read_to_string, which may fail, then the lock
CommandLoad ==
    /\ Received({"load state"})
    /\ \E was_read \in BOOLEAN :
        /\ was_read => file.exists
        /\ IF ~was_read
           THEN /\ Reply(bus, [text |-> "failed to load state"])
                /\ UNCHANGED << topology, committed >>
           ELSE /\ topo_owner = "none"
                /\ IF topo_poisoned
                   THEN /\ Reply(bus, [text |-> "failed to lock topology for load"])
                        /\ UNCHANGED << topology, committed >>
                   ELSE LET new == load_lines(topology.organs, file.lines)
                            a == compute_awareness([organs |-> new])
                        IN  /\ topology' = [topology EXCEPT !.organs = new]
                            /\ committed' = new
                            /\ Reply([bus EXCEPT !.awareness_score = a],
                                     [text |-> "state loaded from aion_state.txt",
                                      awareness |-> a,
                                      awareness_label |-> describe_awareness(a)])
    /\ pc' = "command"
    /\ UNCHANGED << file, saved >>
    /\ CommandFrame

sim_level_of(tok) ==
    IF IsNum(tok) THEN << >>
    ELSE CASE to_lowercase(tok.txt) = "off" -> << "Off" >>
           [] to_lowercase(tok.txt) = "low" -> << "Low" >>
           [] to_lowercase(tok.txt) = "high" -> << "High" >>
           [] OTHER -> << >>

CommandSimLevel ==
    /\ Received({"sim level"})
    /\ LET level == sim_level_of(Head(chan)[3]) IN
       IF level = << >>
       THEN Reply(bus, [text |-> "usage: sim level <off|low|high>"])
       ELSE Reply([bus EXCEPT !.sim_level = level[1]],
                  [text |-> "simulation level set", level |-> level[1]])
    /\ pc' = "command"
    /\ UNCHANGED << topology, file, committed, saved >>
    /\ CommandFrame

CommandLogs ==
    /\ Received({"logs all", "logs commands", "logs silent"})
    /\ LET f == CASE Arm(Head(chan)) = "logs all" -> "All"
                  [] Arm(Head(chan)) = "logs commands" -> "CommandsOnly"
                  [] Arm(Head(chan)) = "logs silent" -> "Silent"
       IN  Reply([bus EXCEPT !.log_filter = f], [text |-> "logging", filter |-> f])
    /\ pc' = "command"
    /\ UNCHANGED << topology, file, committed, saved >>
    /\ CommandFrame

\* the notice, then process::exit(0) when the whole line is "quit"
CommandQuit ==
    /\ Received({"quit"})
    /\ Reply(bus, [text |-> "shutting down kernel (process::exit(0))"])
    /\ pc' = IF Head(chan) = << W("quit") >> THEN "exited" ELSE "command"
    /\ UNCHANGED << topology, file, committed, saved >>
    /\ CommandFrame

CommandUnknown ==
    /\ Received({"unknown"})
    /\ Reply(bus, [text |-> "unknown command", line |-> Head(chan)])
    /\ pc' = "command"
    /\ UNCHANGED << topology, file, committed, saved >>
    /\ CommandFrame

\* a command daemon that ends its tick with commands still queued (C13 is tested
\* against it)
CommandDrained_early ==
    /\ pc = "command"
    /\ UNCHANGED << bus, pulse >>
    /\ pc' = "sleep"
    /\ UNCHANGED << now, daemon_vars, topology, metrics_snapshot, file, committed, saved >>
    /\ UNCHANGED << lock_vars, http_vars, env_vars, call, notified >>

\* try_recv: Empty ends the tick; Disconnected ends it after a notice
CommandDrained ==
    /\ pc = "command"
    /\ chan = << >>
    /\ IF stdin_open
       THEN UNCHANGED << bus, pulse >>
       ELSE /\ bus' = Emitted(bus)
            /\ pulse' = Pulse(bus, "Command", "command",
                              [text |-> "command input channel disconnected"])
    /\ notified' = (notified \/ ~stdin_open)
    /\ pc' = "sleep"
    /\ UNCHANGED << now, daemon_vars, topology, metrics_snapshot, file, committed, saved >>
    /\ UNCHANGED << lock_vars, http_vars, env_vars, call >>

---------------------------------------------------------------------------
(* The stdin producer thread *)

\* The channel is read by try_recv alone: a line sent while the other daemons tick or
\* while the loop sleeps is first seen by the next try_recv, so the producer's sends
\* are placed between the try_recv calls of the command daemon's drain.
\* a producer that sends the empty lines too (C15 is tested against it)
StdinLine_unfiltered ==
    /\ pc = "command"
    /\ stdin_open
    /\ events < MaxEvents
    /\ \E line \in Lines \cup { << >> } : chan' = Append(chan, line)
    /\ events' = events + 1
    /\ UNCHANGED << sched_vars, topology, metrics_snapshot, stdin_open, file, committed, saved >>
    /\ UNCHANGED << lock_vars, http_vars, call, notified >>

\* `if !cmd.is_empty()`: a line that is empty once trimmed (<< >>) is not sent
StdinLine ==
    /\ pc = "command"
    /\ stdin_open
    /\ events < MaxEvents
    /\ \E line \in Lines \cup { << >> } :
          chan' = IF line = << >> THEN chan ELSE Append(chan, line)
    /\ events' = events + 1
    /\ UNCHANGED << sched_vars, topology, metrics_snapshot, stdin_open, file, committed, saved >>
    /\ UNCHANGED << lock_vars, http_vars, call, notified >>

\* end of input: the thread returns and drops the sender
StdinEof ==
    /\ pc = "command"
    /\ stdin_open
    /\ events < MaxEvents
    /\ stdin_open' = FALSE
    /\ events' = events + 1
    /\ UNCHANGED << sched_vars, topology, metrics_snapshot, chan, file, committed, saved >>
    /\ UNCHANGED << lock_vars, http_vars, call, notified >>

---------------------------------------------------------------------------
(* The HTTP listener thread *)

Urls == {"/", "/status", "/metrics", "/mem", "/favicon.ico"}

\* a listener for which a score of exactly 0.60 is still "impaired" (C21 is tested
\* against it)
http_health_label_strict(h) ==
    IF FGe(h, (85 * Scale) \div 100) THEN "ok"
    ELSE IF FGt(h, (60 * Scale) \div 100) THEN "degraded"
    ELSE IF FGe(h, (35 * Scale) \div 100) THEN "impaired"
    ELSE IF FGt(h, 0) THEN "critical"
    ELSE "failed"

\* the label the listener computes inline for a health score
http_health_label(h) ==
    IF FGe(h, (85 * Scale) \div 100) THEN "ok"
    ELSE IF FGe(h, (60 * Scale) \div 100) THEN "degraded"
    ELSE IF FGe(h, (35 * Scale) \div 100) THEN "impaired"
    ELSE IF FGt(h, 0) THEN "critical"
    ELSE "failed"

HttpFrame ==
    /\ UNCHANGED << sched_vars, topology, metrics_snapshot, file, committed, saved,
                    chan, stdin_open, topo_poisoned, metrics_poisoned, call, notified >>

\* Server::http(&addr).unwrap(): the thread panics when the address cannot be bound
HttpBind ==
    /\ Running
    /\ http.pc = "bind"
    /\ \/ /\ http' = [http EXCEPT !.pc = "idle"]
          /\ UNCHANGED events
       \/ /\ events < MaxEvents
          /\ http' = [http EXCEPT !.pc = "dead"]
          /\ events' = events + 1
    /\ UNCHANGED << response, topo_owner >>
    /\ HttpFrame

HttpRequest ==
    /\ Running
    /\ http.pc = "idle"
    /\ events < MaxEvents
    /\ \E url \in Urls : http' = [http EXCEPT !.pc = "lock", !.url = url]
    /\ events' = events + 1
    /\ UNCHANGED << response, topo_owner >>
    /\ HttpFrame

\* a listener that reads the topology without waiting for the guard (C3 is tested
\* against it)
HttpLock_unguarded ==
    /\ pc /= "exited"
    /\ http.pc = "lock"
    /\ http' = [http EXCEPT !.pc = "read_health"]
    /\ topo_owner' = "http"
    /\ UNCHANGED << response, events, sched_vars, topology, metrics_snapshot, file,
                    committed, saved, chan, stdin_open, topo_poisoned, metrics_poisoned, call, notified >>

\* topology.lock(): the guard, or the fallback values when the mutex is poisoned
HttpLock ==
    /\ Running
    /\ http.pc = "lock"
    /\ topo_owner = "none"
    /\ IF topo_poisoned
       THEN /\ http' = [http EXCEPT !.pc = "respond",
                            !.health_score = Scale, !.health_label = "ok",
                            !.awareness_score = AwScale, !.awareness_label = "optimal"]
            /\ UNCHANGED topo_owner
       ELSE /\ http' = [http EXCEPT !.pc = "read_health"]
            /\ topo_owner' = "http"
    /\ UNCHANGED << response, events >>
    /\ HttpFrame

HttpReadHealth ==
    /\ Running
    /\ http.pc = "read_health"
    /\ LET h == compute_overall_health(topology) IN
       http' = [http EXCEPT !.pc = "read_awareness",
                    !.health_score = h, !.health_label = http_health_label(h)]
    /\ UNCHANGED << response, events, topo_owner >>
    /\ HttpFrame

\* a listener that reports the awareness score of the bus (C35 is tested against it)
HttpReadAwareness_from_bus ==
    /\ Running
    /\ http.pc = "read_awareness"
    /\ LET a == bus.awareness_score IN
       http' = [http EXCEPT !.pc = "respond",
                    !.awareness_score = a, !.awareness_label = describe_awareness(a)]
    /\ topo_owner' = "none"
    /\ UNCHANGED << response, events >>
    /\ HttpFrame

\* the awareness, and the end of the block that holds the guard
HttpReadAwareness ==
    /\ Running
    /\ http.pc = "read_awareness"
    /\ LET a == compute_awareness(topology) IN
       http' = [http EXCEPT !.pc = "respond",
                    !.awareness_score = a, !.awareness_label = describe_awareness(a)]
    /\ topo_owner' = "none"
    /\ UNCHANGED << response, events >>
    /\ HttpFrame

\* the match on the url, up to the guard its arm takes: metrics.lock().unwrap() in the
\* arm of /metrics, the mutex of the working memory inside memory.dump() in the arm of
\* /mem; the other arms build their response from the values read under the topology
\* guard
HttpMatch ==
    /\ Running
    /\ http.pc = "respond"
    /\ LET snap == [health_score |-> http.health_score, health_label |-> http.health_label,
                    awareness_score |-> http.awareness_score,
                    awareness_label |-> http.awareness_label]
       IN
       CASE http.url = "/metrics" ->
              IF metrics_poisoned
              THEN http' = [pc |-> "dead", url |-> "", holds |-> "none",
                            reply |-> NoResponse] @@ NoSnapshot
              ELSE http' = [http EXCEPT !.pc = "metrics", !.holds = "metrics"]
         [] http.url = "/mem" -> http' = [http EXCEPT !.pc = "mem", !.holds = "memory"]
         [] http.url = "/" ->
              http' = [http EXCEPT !.pc = "send",
                           !.reply = [code |-> 200, body |-> "html", snap |-> snap]]
         [] http.url = "/status" ->
              http' = [http EXCEPT !.pc = "send",
                           !.reply = [code |-> 200, body |-> "status", snap |-> snap]]
         [] OTHER ->
              http' = [http EXCEPT !.pc = "send",
                           !.reply = [code |-> 404, body |-> "not found"]]
    /\ UNCHANGED << response, events, topo_owner >>
    /\ HttpFrame

\* an arm of /metrics whose guard lives until the end of the request (C34 is tested
\* against it)
HttpMetrics_keeping ==
    /\ Running
    /\ http.pc = "metrics"
    /\ http' = [http EXCEPT !.pc = "send",
                    !.reply = IF metrics_snapshot = << >>
                              THEN [code |-> 503, body |-> "metrics not yet available"]
                              ELSE [code |-> 200, body |-> "metrics",
                                    metrics |-> metrics_snapshot[1]]]
    /\ UNCHANGED << response, events, topo_owner >>
    /\ HttpFrame

\* the arm of /metrics under the guard: the response is built from the snapshot, and
\* the guard is dropped where the arm ends
HttpMetrics ==
    /\ Running
    /\ http.pc = "metrics"
    /\ http' = [http EXCEPT !.pc = "send", !.holds = "none",
                    !.reply = IF metrics_snapshot = << >>
                              THEN [code |-> 503, body |-> "metrics not yet available"]
                              ELSE [code |-> 200, body |-> "metrics",
                                    metrics |-> metrics_snapshot[1]]]
    /\ UNCHANGED << response, events, topo_owner >>
    /\ HttpFrame

\* a dump of the working memory that needs the topology guard while it holds the
\* guard of the working memory (C36 is tested against it)
HttpMem_locking ==
    /\ Running
    /\ http.pc = "mem"
    /\ topo_owner = "none"
    /\ http' = [http EXCEPT !.pc = "send", !.holds = "none",
                    !.reply = [code |-> 200, body |-> "mem"]]
    /\ UNCHANGED << response, events, topo_owner >>
    /\ HttpFrame

\* memory.dump(): the dump is made under the guard of the working memory, which is
\* dropped where dump returns
HttpMem ==
    /\ Running
    /\ http.pc = "mem"
    /\ http' = [http EXCEPT !.pc = "send", !.holds = "none",
                    !.reply = [code |-> 200, body |-> "mem"]]
    /\ UNCHANGED << response, events, topo_owner >>
    /\ HttpFrame

\* req.respond(response)
HttpRespond ==
    /\ Running
    /\ http.pc = "send"
    /\ http' = [pc |-> "sent", url |-> http.url, holds |-> http.holds,
                 reply |-> NoResponse] @@ NoSnapshot
    /\ response' = http.reply
    /\ UNCHANGED << events, topo_owner >>
    /\ HttpFrame

\* the next turn of the loop over server.incoming_requests()
HttpNext ==
    /\ Running
    /\ http.pc = "sent"
    /\ http' = [http EXCEPT !.pc = "idle", !.url = "", !.holds = "none"]
    /\ response' = NoResponse
    /\ UNCHANGED << events, topo_owner >>
    /\ HttpFrame

---------------------------------------------------------------------------
(* Faults *)

\* lock() returns Err from now on: a thread panicked while it held the guard
PoisonTopology ==
    /\ Running
    /\ ~topo_poisoned
    /\ topo_owner = "none"
    /\ events < MaxEvents
    /\ topo_poisoned' = TRUE
    /\ events' = events + 1
    /\ UNCHANGED << sched_vars, topology, metrics_snapshot, file, committed, saved,
                    chan, stdin_open, topo_owner, metrics_poisoned >>
    /\ UNCHANGED << http_vars, call, notified >>

PoisonMetrics ==
    /\ Running
    /\ ~metrics_poisoned
    /\ http.holds /= "metrics"
    /\ events < MaxEvents
    /\ metrics_poisoned' = TRUE
    /\ events' = events + 1
    /\ UNCHANGED << sched_vars, topology, metrics_snapshot, file, committed, saved,
                    chan, stdin_open, topo_owner, topo_poisoned >>
    /\ UNCHANGED << http_vars, call, notified >>

---------------------------------------------------------------------------
(* The system *)

Scheduler ==
    \/ HeartbeatTick
    \/ StatusBegin \/ StatusLock \/ StatusBlend \/ StatusPublish
    \/ AiTick
    \/ SimTick
    \/ CommandReport \/ CommandAdjust \/ CommandSave \/ CommandLoad \/ CommandSimLevel
    \/ CommandLogs \/ CommandQuit \/ CommandUnknown \/ CommandDrained
    \/ NextIteration

Producer == StdinLine \/ StdinEof

Listener ==
    \/ HttpBind \/ HttpRequest \/ HttpLock \/ HttpReadHealth \/ HttpReadAwareness
    \/ HttpMatch \/ HttpMetrics \/ HttpMem \/ HttpRespond \/ HttpNext

Faults == PoisonTopology \/ PoisonMetrics

Next == Scheduler \/ Producer \/ Listener \/ Faults

Spec == Init /\ [][Next]_vars

\* the steps of the listener thread once a request has arrived
Serving ==
    \/ HttpLock \/ HttpReadHealth \/ HttpReadAwareness
    \/ HttpMatch \/ HttpMetrics \/ HttpMem \/ HttpRespond \/ HttpNext

\* The runs checked under fair scheduling: the lines typed are one for every arm of the
\* Command daemon but `damage` and `heal` (CommandAdjust is never enabled in such a
\* run, and a run with it differs in the healths alone), the requests are the three
\* whose arms use what was read under a guard or take one, `/status`, `/metrics` and
\* `/mem`, and the guards are not poisoned.
LiveLines ==
    { << W("help") >>, << W("status") >>,
      << W("save"), W("state") >>, << W("load"), W("state") >>,
      << W("sim"), W("level"), W("off") >>, << W("logs"), W("all") >>,
      << W("quit") >>, << W("quit"), W("now") >>, << W("frobnicate") >> }

LiveStdinLine == StdinLine /\ chan' /= chan /\ chan'[Len(chan')] \in LiveLines
LiveHttpRequest == HttpRequest /\ http'.url \in {"/status", "/metrics", "/mem"}

LiveScheduler ==
    \/ HeartbeatTick
    \/ StatusBegin \/ StatusLock \/ StatusBlend \/ StatusPublish
    \/ AiTick
    \/ SimTick
    \/ CommandReport \/ CommandSave \/ CommandLoad \/ CommandSimLevel
    \/ CommandLogs \/ CommandQuit \/ CommandUnknown \/ CommandDrained
    \/ NextIteration

LiveNext ==
    \/ LiveScheduler
    \/ LiveStdinLine \/ StdinEof
    \/ HttpBind \/ LiveHttpRequest \/ Serving

\* The scheduler thread and the listener thread are threads of the operating system:
\* each takes its next step when it can.
LiveSpec == Init /\ [][LiveNext]_vars /\ WF_vars(LiveScheduler) /\ WF_vars(Serving)

---------------------------------------------------------------------------
(* The functions on their own: arguments from bounded sets, one call per action *)

\* blend steps applied one after the other
MaxSteps == 3
\* simulation ticks applied one after the other
MaxSimTicks == 6
\* a blend starts at most this far (in units of F32One) from its target
MaxDist == 100

IsF32(x) == x % F32Ulp(x, 1) = 0

\* topologies of up to three organs of distinct kinds, and the sample
GridHealths == {0, Dec(30000), Dec(60000), Scale}
GridKinds == {"Cortex", "Memory", "IoBridge", "Storage"}
GridOrgans == { [id |-> 1, node |-> 1, kind |-> k, health |-> h] : k \in GridKinds, h \in GridHealths }
GridTopologies ==
    { [nodes |-> sample_topology.nodes, organs |-> o] :
        o \in { q \in UNION { [1..n -> GridOrgans] : n \in 0..3 } :
                  \A i, j \in DOMAIN q : i /= j => q[i].kind /= q[j].kind } }
      \cup { sample_topology }

BlendTargets == { F32One, F32Parse(70000), F32Parse(40000) }
BlendStarts(t) ==
    { x \in (t - MaxDist)..(t + MaxDist) : x <= F32One /\ IsF32(x) }
      \cup { 0, F32Parse(50000), F32Parse(98000), F32One }

AdjustHealths == { F32Parse(h) : h \in {5000, 35000, 50000, 80000, 98000, 100000} }
AdjustAmounts == { F32Parse(a) : a \in {0, 9000, 20000, 30000, 98000, 200000} }

Calls ==
    { [fn |-> "compute_awareness", topo |-> t, done |-> FALSE, awareness |-> 0, label |-> ""] :
        t \in GridTopologies }
      \cup { [fn |-> "blend_health", target |-> t, prev |-> c, health |-> c, n |-> 0] :
               t \in BlendTargets, c \in UNION { BlendStarts(x) : x \in BlendTargets } }
      \cup { [fn |-> "damage_heal", h |-> h, amount |-> a, health |-> h, n |-> 0] :
               h \in AdjustHealths, a \in AdjustAmounts }
      \cup { [fn |-> "compute_overall_health", topo |-> t, done |-> FALSE, health |-> 0] :
               t \in GridTopologies }
      \* the sample organs, organs at the ends of [0,1], and an organ without a health
      \cup { [fn |-> "sim_tick", level |-> l, tick |-> 0, prev |-> o, organs |-> o] :
               l \in {"Low", "High"},
               o \in { sample_topology.organs,
                       [sample_topology.organs EXCEPT ![1].health = 0, ![2].health = Scale,
                                                      ![3].health = Dec(500)],
                       [sample_topology.organs EXCEPT ![2].health = NaN] } }
      \* amounts of either sign, within and beyond [-1,1], for an organ of the topology
      \* and for a kind it lacks
      \cup { [fn |-> "adjust", organs |-> o, kind |-> k, amount |-> a, done |-> FALSE,
              damaged |-> << >>, healed |-> << >>] :
               o \in { sample_topology.organs,
                       [sample_topology.organs EXCEPT ![1].health = 0, ![2].health = Scale,
                                                      ![3].health = Dec(500)],
                       [sample_topology.organs EXCEPT ![2].health = NaN] },
               k \in {"cortex", "Memory", "io", "storage"},
               a \in {-200000, -50000, -20000, 0, 20000, 50000, 200000} }
      \* readings below, at and above the points where a penalty starts and is capped
      \cup { [fn |-> "compute_health", cpu_temp_c |-> t, ram_used_ratio |-> F32Parse(r),
              net_packet_loss |-> F32Parse(l), done |-> FALSE,
              cortex |-> 0, memory |-> 0, iobridge |-> 0] :
               t \in {45 * F32Deg, 60 * F32Deg, 62 * F32Deg, 20862294, 84 * F32Deg - 2,
                      84 * F32Deg, 100 * F32Deg},
               r \in {30000, 75000, 80000, 94417, 100000},
               l \in {0, 5000, 10000, 25000, 50000} }
      \* scores at the breakpoints, next to them and between them
      \cup { [fn |-> "classify_health", score |-> s, done |-> FALSE, health_label |-> "",
              awareness_label |-> "", http_label |-> ""] :
               s \in UNION { {Dec(b) - 1, Dec(b), Dec(b) + 1} : b \in {35000, 60000, 85000} }
                       \cup { 0, 1, Dec(20000), Dec(50000), Dec(70000), Dec(90000),
                              Scale - 1, Scale } }

FnInit ==
    /\ ProgramInit
    /\ bus.telemetry_mode = "Simulated"
    /\ call \in Calls

Call_compute_awareness ==
    /\ call.fn = "compute_awareness"
    /\ ~call.done
    /\ call' = [call EXCEPT !.done = TRUE,
                            !.awareness = compute_awareness(call.topo),
                            !.label = describe_awareness(compute_awareness(call.topo))]
    /\ UNCHANGED program_vars

Call_blend_health ==
    /\ call.fn = "blend_health"
    /\ call.n < MaxSteps
    /\ call' = [call EXCEPT !.prev = call.health,
                            !.health = blend_health_f32(call.health, call.target),
                            !.n = @ + 1]
    /\ UNCHANGED program_vars

\* `damage <kind> a`, then `heal <kind> a`, on the organ's health
Call_damage ==
    /\ call.fn = "damage_heal"
    /\ call.n = 0
    /\ call' = [call EXCEPT !.health = damage_f32(call.health, call.amount), !.n = 1]
    /\ UNCHANGED program_vars

Call_heal ==
    /\ call.fn = "damage_heal"
    /\ call.n = 1
    /\ call' = [call EXCEPT !.health = heal_f32(call.health, call.amount), !.n = 2]
    /\ UNCHANGED program_vars

Call_compute_overall_health ==
    /\ call.fn = "compute_overall_health"
    /\ ~call.done
    /\ call' = [call EXCEPT !.done = TRUE, !.health = compute_overall_health(call.topo)]
    /\ UNCHANGED program_vars

\* SimulationDaemon::tick past its gate, the intensity Low or High and the guard held
Call_sim_tick ==
    /\ call.fn = "sim_tick"
    /\ call.tick < MaxSimTicks
    /\ call' = [call EXCEPT !.tick = @ + 1,
                            !.prev = call.organs,
                            !.organs = sim_nudge(call.level, call.tick + 1, call.organs)]
    /\ UNCHANGED program_vars

\* `damage <kind> a` and `heal <kind> -a`, each applied to the same organs
Call_adjust ==
    /\ call.fn = "adjust"
    /\ ~call.done
    /\ call' = [call EXCEPT
                  !.done = TRUE,
                  !.damaged = handle_damage(<< W("damage"), W(call.kind), N(call.amount) >>,
                                            call.organs, FALSE),
                  !.healed = handle_heal(<< W("heal"), W(call.kind), N(-call.amount) >>,
                                         call.organs, FALSE)]
    /\ UNCHANGED program_vars

\* the three targets of one telemetry reading
Call_compute_health ==
    /\ call.fn = "compute_health"
    /\ ~call.done
    /\ call' = [call EXCEPT !.done = TRUE,
                            !.cortex = compute_cortex_health_f32(call.cpu_temp_c),
                            !.memory = compute_memory_health_f32(call.ram_used_ratio),
                            !.iobridge = compute_iobridge_health_f32(call.net_packet_loss)]
    /\ UNCHANGED program_vars

\* the labels of one score: as a health (kernel and listener) and as an awareness
Call_classify_health ==
    /\ call.fn = "classify_health"
    /\ ~call.done
    /\ call' = [call EXCEPT !.done = TRUE,
                            !.health_label = classify_health(call.score),
                            !.awareness_label = describe_awareness(10 * call.score),
                            !.http_label = http_health_label(call.score)]
    /\ UNCHANGED program_vars

FnNext ==
    \/ Call_compute_awareness \/ Call_blend_health \/ Call_damage \/ Call_heal
    \/ Call_compute_overall_health \/ Call_classify_health \/ Call_compute_health
    \/ Call_sim_tick \/ Call_adjust

FnSpec == FnInit /\ [][FnNext]_vars

---------------------------------------------------------------------------
(* Properties of the functions (FnSpec) *)

Abs(x) == IF x < 0 THEN -x ELSE x
Max(a, b) == IF a > b THEN a ELSE b

\* the health of the organ of a kind in a topology of distinct kinds, 1.0 without one
RoleHealth(topo, kind) ==
    IF \E i \in DOMAIN topo.organs : topo.organs[i].kind = kind
    THEN topo.organs[CHOOSE i \in DOMAIN topo.organs : topo.organs[i].kind = kind].health
    ELSE Scale

WeightedAwareness(topo, wc, wm, wi) ==
    Min(AwScale, Max(0, wc * RoleHealth(topo, "Cortex") + wm * RoleHealth(topo, "Memory")
                          + wi * RoleHealth(topo, "IoBridge")))

\* C2, as the source has it: for every topology, awareness equals
\* 0.4*cortexHealth + 0.3*memoryHealth + 0.3*ioBridgeHealth clamped to [0,1], the health
\* of a role that is not present taken as 1.0; on the sample topology (Cortex 0.98,
\* Memory 0.99, IoBridge 0.97) awareness is 0.980 and its label is "optimal".
C2_AwarenessWeights ==
    (call.fn = "compute_awareness" /\ call.done) =>
        /\ call.awareness = WeightedAwareness(call.topo, 4, 3, 3)
        /\ call.topo = sample_topology =>
              call.awareness = 980 * (AwScale \div 1000) /\ call.label = "optimal"

\* C2 as stated: the weights are 0.5 / 0.3 / 0.2, and the sample topology's awareness
\* is 0.981.
C2_AsStated ==
    (call.fn = "compute_awareness" /\ call.done) =>
        /\ call.awareness = WeightedAwareness(call.topo, 5, 3, 2)
        /\ call.topo = sample_topology =>
              call.awareness = 981 * (AwScale \div 1000) /\ call.label = "optimal"

\* C2's case: the awareness of the sample topology has been computed
C2_Witness ==
    /\ call.fn = "compute_awareness"
    /\ call.done
    /\ call.topo = sample_topology

\* 2^-24, 2^-23 and 2^-22 in units of F32One
Eps24 == F32One \div Pow(2, 24)
Eps23 == F32One \div Pow(2, 23)
Eps22 == F32One \div Pow(2, 22)

\* C4, to the precision of f32: one blend step sets health to 0.75*current + 0.25*target
\* within 2^-24; if current equals target the step leaves health unchanged; a step
\* never overshoots the target and never increases the distance |health - target|; the
\* distance shrinks strictly while it is more than 2^-22 (nearer the target a step may
\* leave health where it is, short of the target).
C4_BlendStep ==
    (call.fn = "blend_health" /\ call.n > 0) =>
        /\ Abs(AlphaDen * call.health
                 - ((AlphaDen - AlphaNum) * call.prev + AlphaNum * call.target)) <= AlphaDen * Eps24
        /\ call.prev = call.target => call.health = call.prev
        /\ call.prev <= call.target => (call.prev <= call.health /\ call.health <= call.target)
        /\ call.prev >= call.target => (call.target <= call.health /\ call.health <= call.prev)
        /\ Abs(call.prev - call.target) > Eps22 =>
              Abs(call.health - call.target) < Abs(call.prev - call.target)

\* C4 as stated: the step sets health to exactly 0.75*current + 0.25*target, a fixed
\* point at current = target, no overshoot, and the distance to the target shrinks
\* strictly while health differs from the target.
C4_AsStated ==
    (call.fn = "blend_health" /\ call.n > 0) =>
        /\ AlphaDen * call.health = (AlphaDen - AlphaNum) * call.prev + AlphaNum * call.target
        /\ call.prev = call.target => call.health = call.prev
        /\ call.prev <= call.target => (call.prev <= call.health /\ call.health <= call.target)
        /\ call.prev >= call.target => (call.target <= call.health /\ call.health <= call.prev)
        /\ call.prev /= call.target =>
              Abs(call.health - call.target) < Abs(call.prev - call.target)

\* C4's case: a step from a health that differs from the target has left it unchanged
C4_Witness ==
    /\ call.fn = "blend_health"
    /\ call.n > 0
    /\ call.prev /= call.target
    /\ call.health = call.prev

\* C7, to the precision of f32: for an organ at health h in [0,1] and an amount a >= 0,
\* `damage <kind> a` followed by `heal <kind> a` returns the organ to within 2^-23 of h
\* when no clamping occurs (a <= h), and otherwise yields min(1, max(0, h - a) + a),
\* which is min(1, a).
C7_DamageHeal ==
    (call.fn = "damage_heal" /\ call.n = 2) =>
        IF call.amount <= call.h
        THEN Abs(call.health - call.h) <= Eps23
        ELSE call.health = Min(F32One, Max(0, call.h - call.amount) + call.amount)

\* C7 as stated: the organ is back at h when a <= h, and at min(1, max(0, h - a) + a)
\* otherwise.
C7_AsStated ==
    (call.fn = "damage_heal" /\ call.n = 2) =>
        IF call.amount <= call.h
        THEN call.health = call.h
        ELSE call.health = Min(F32One, Max(0, call.h - call.amount) + call.amount)

\* C7's case: a damage and a heal of the same amount, without clamping, that end
\* next to h
C7_Witness ==
    /\ call.fn = "damage_heal"
    /\ call.n = 2
    /\ call.amount <= call.h
    /\ call.health /= call.h

---------------------------------------------------------------------------
(* Properties of the program (Spec) *)

InUnit(h) == h /= NaN /\ 0 <= h /\ h <= Scale

\* C1: in every reachable state, under any sequence and interleaving of Status
\* blends, Simulation nudges and `damage`, `heal` and `load state` commands, every
\* organ's health is within [0,1].
C1_HealthInUnit ==
    \A i \in DOMAIN topology.organs : InUnit(topology.organs[i].health)

\* C3: a `/status` request served concurrently with a Status-daemon tick computes its
\* health score and its awareness score from one topology state, which is entirely the
\* state before that tick's blend or entirely the state after it: while the listener
\* holds the guard the topology is the one the last writer left, and both scores are
\* functions of it.
C3_StatusSnapshot ==
    [][ (http.pc = "read_awareness" /\ http'.pc = "respond") =>
          /\ topology.organs = committed
          /\ pc /= "status_blend"
          /\ http'.health_score = compute_overall_health([organs |-> committed])
          /\ http'.awareness_score = compute_awareness([organs |-> committed]) ]_vars

\* C3's case: a `/status` request waits for the guard while the Status daemon is in the
\* middle of its blend (some organs blended, others not yet)
C3_Witness ==
    /\ pc = "status_blend"
    /\ status.idx = 2
    /\ topology.organs /= committed
    /\ http.pc = "lock"
    /\ http.url = "/status"

\* C5: whenever an AI-policy daemon tick passes its interval gate and the awareness it
\* reads is in the critical band (0 < awareness < 0.35), simulation intensity is Off
\* when that tick returns; when the awareness it reads is in any other band, that tick
\* leaves simulation intensity unchanged.
C5_CriticalReflex ==
    [][ (pc = "ai" /\ ai'.cycle /= ai.cycle) =>
          LET a == IF topo_poisoned THEN bus.awareness_score ELSE compute_awareness(topology)
          IN  IF a /= NaN /\ 0 < a /\ 100 * a < 35 * AwScale
              THEN bus'.sim_level = "Off"
              ELSE bus'.sim_level = bus.sim_level ]_vars

\* C5's case: an AI tick has read an awareness in the critical band while the
\* simulation was on, and has switched it off
C5_Witness ==
    /\ pc = "sim"
    /\ pulse.kind = "Ai"
    /\ pulse.msg.policy = "policy=protect_core(sim_off)"
    /\ ai.last_run = now
    /\ bus.sim_level = "Off"

\* C6: a command that is rejected as a parse error (`damage` / `heal` with the wrong
\* number of arguments, a non-numeric amount, an unknown organ name, or an organ kind
\* absent from the topology; `sim level` with an invalid or missing level; `logs` with
\* an invalid or missing filter; or any unrecognised command) emits exactly one Command
\* pulse and leaves every organ health, the simulation intensity, the log filter and
\* the bus awareness score unchanged.
C6_RejectedCommand ==
    [][ (pc = "command" /\ chan /= << >> /\ chan' = Tail(chan) /\ Head(chan) \in RejectedLines) =>
          /\ bus'.next_id = bus.next_id + 1
          /\ pulse'.kind = "Command"
          /\ pulse'.id = bus'.next_id
          /\ topology' = topology
          /\ bus'.sim_level = bus.sim_level
          /\ bus'.log_filter = bus.log_filter
          /\ bus'.awareness_score = bus.awareness_score ]_vars

\* C6's case: a `damage` of an organ kind the topology does not have has been answered
C6_Witness ==
    /\ pulse.kind = "Command"
    /\ pulse.msg.text = "organ not found in topology"
    /\ pulse.id = bus.next_id

\* the step in which `load state` has read the file and applied it
Loaded ==
    /\ pc = "command"
    /\ chan /= << >>
    /\ chan' = Tail(chan)
    /\ Head(chan) = << W("load"), W("state") >>
    /\ pulse'.msg.text = "state loaded from aion_state.txt"

\* h, a health as loaded, is s, a health as saved, rounded to 5 decimals
RoundedTo5(h, s) ==
    IF s = NaN THEN h = NaN
    ELSE /\ InUnit(h)
         /\ h % (Scale \div Prec) = 0
         /\ 2 * Abs(h - s) <= Scale \div Prec

\* C8: if `save state` succeeds and `load state` later succeeds on the unmodified
\* file, then after the load every organ's health equals the health it had at the
\* moment of the save rounded to the serialized precision, whatever Status blends,
\* Simulation nudges or damage / heal commands happened in between.
C8_SaveLoad ==
    [][ (Loaded /\ saved /= << >>) =>
          \A i \in DOMAIN topology'.organs :
              RoundedTo5(topology'.organs[i].health, saved[1][i].health) ]_vars

\* C8's case: a state has been saved, the topology has changed since, and the load
\* has brought back the saved healths, one of them rounded
C8_Witness ==
    /\ saved /= << >>
    /\ pulse.kind = "Command"
    /\ pulse.msg.text = "state loaded from aion_state.txt"
    /\ pulse.id = bus.next_id
    /\ \E i \in DOMAIN topology.organs : topology.organs[i].health /= saved[1][i].health

\* the lines of the file that are well formed and name an organ of kind k
WellFormed(lines, k) ==
    { j \in DOMAIN lines :
        /\ Len(lines[j]) >= 2
        /\ parse_organ_kind(lines[j][1]) = << k >>
        /\ parse_f32(lines[j][2]) /= << >> }

\* C9: `load state` skips, without reporting an error, every line whose organ name is
\* unknown or whose health value does not parse, and applies every other line: after
\* the load each organ named by a well-formed line has that line's health clamped to
\* [0,1], and every organ not named by any well-formed line keeps the health it had.
C9_LoadSkipsBadLines ==
    [][ Loaded =>
          \A i \in DOMAIN topology.organs :
              LET named == WellFormed(file.lines, topology.organs[i].kind)
                  h == topology'.organs[i].health
              IN  IF named = {}
                  THEN h = topology.organs[i].health
                  ELSE /\ InUnit(h)
                       /\ \E j \in named :
                            h = Min(Scale, Max(0, parse_f32(file.lines[j][2])[1])) ]_vars

\* C10: when a daemon (Status, AI-policy, Simulation or Command) fails to acquire the
\* topology guard during a tick, it reports a textual error event on the Bus for that
\* tick and performs none of that tick's writes to shared state (organ health, bus
\* awareness score, metrics snapshot).  (The claim goes on: the scheduler loop keeps
\* running and tries again on the next tick; the formula is about the failing tick.)
C10_LockFailure ==
    [][ topo_poisoned =>
          \* the Status daemon's tick, from its gate to the failed lock
          /\ (pc = "status" /\ pc' = "status_lock") => metrics_snapshot' = metrics_snapshot
          /\ (pc = "status_lock" /\ pc' = "ai") =>
                /\ bus'.next_id = bus.next_id + 1
                /\ pulse'.msg.text = "status tick: failed to lock topology"
                /\ bus'.awareness_score = bus.awareness_score
                /\ topology' = topology
          \* the AI-policy daemon's tick
          /\ (pc = "ai" /\ ai'.cycle /= ai.cycle) =>
                /\ bus'.next_id = bus.next_id + 1
                /\ "policy" \notin DOMAIN pulse'.msg
          \* the Simulation daemon's tick
          /\ (pc = "sim" /\ sim'.tick /= sim.tick /\ bus.sim_level /= "Off") =>
                /\ bus'.next_id = bus.next_id + 1
                /\ topology' = topology ]_vars

\* C11: when a listener request fails to acquire the topology guard or the
\* metrics-snapshot guard, the response for that request reports an error (the request
\* carries no health or awareness values that were not read from the topology), and
\* the listener keeps serving later requests.
C11_ListenerLockFailure ==
    [][ /\ (http.pc = "lock" /\ http'.pc = "respond") =>
              http'.health_label = "" /\ http'.awareness_label = ""
        /\ (http.pc = "respond" /\ http.url = "/metrics" /\ metrics_poisoned
              /\ http'.pc /= "respond") =>
              http'.pc = "send" /\ http'.reply.code >= 500 ]_vars

\* C12: whenever the Command daemon processes a command line whose first token is
\* `quit` it emits the shutdown notice and the process then terminates immediately: no
\* command queued behind it is processed and no further daemon tick runs after the
\* notice.
C12_QuitTerminates ==
    [][ /\ (pc = "command" /\ chan /= << >> /\ chan' = Tail(chan)
              /\ Head(chan)[1] = W("quit")) =>
              /\ pulse'.msg.text = "shutting down kernel (process::exit(0))"
              /\ pulse'.id = bus.next_id + 1
              /\ pc' = "exited"
        /\ pc = "exited" => UNCHANGED program_vars ]_vars

---------------------------------------------------------------------------
(* Properties of the program under fair scheduling (LiveSpec) *)

\* C13: each scheduler iteration the Command daemon processes every command that is
\* queued when its tick starts, in the order the commands were submitted and each
\* exactly once (the queue only loses its head, to one Command pulse), and returns
\* without blocking as soon as the queue is empty (the tick ends only on an empty
\* queue, and an empty queue ends it); hence, as long as the scheduler keeps running
\* and no `quit` is processed, every submitted command line is eventually processed.
C13_CommandDrain ==
    /\ [][ /\ chan' /= chan =>
                \/ \E line \in Lines : chan' = Append(chan, line)
                \/ /\ chan /= << >>
                   /\ chan' = Tail(chan)
                   /\ pc = "command"
                   /\ pulse'.kind = "Command"
                   /\ pulse'.id = bus.next_id + 1
                   /\ bus'.next_id = bus.next_id + 1
           /\ (pc = "command" /\ pc' = "sleep") => chan = << >>
           /\ (pc = "command" /\ chan = << >>) => ENABLED CommandDrained ]_vars
    /\ (chan /= << >>) ~> (chan = << >> \/ pc = "exited")

\* C13's case: two commands, `logs all` and then an unknown one, have been processed
\* in this order by one tick of the Command daemon (the first of the run)
C13_Witness ==
    /\ pc = "sleep"
    /\ now = 0
    /\ chan = << >>
    /\ bus.next_id = 2
    /\ bus.log_filter = "All"
    /\ pulse.id = 2
    /\ pulse.msg.text = "unknown command"

---------------------------------------------------------------------------
(* Properties of the program, continued (Spec) *)

\* C14: once the input source is disconnected and its queue is empty, the Command
\* daemon logs the disconnect notice once and stops draining for the remainder of the
\* run: a tick that polls the queue, finds it disconnected and emits the notice is
\* the first such tick of the run.
C14_DisconnectOnce ==
    [][ (pc = "command" /\ pc' = "sleep" /\ ~stdin_open) => ~notified ]_vars

---------------------------------------------------------------------------
(* Properties of the functions, continued (FnSpec) *)

\* topo with the health of its organ of a kind (when it has one) set to h
WithHealth(topo, kind, h) ==
    [topo EXCEPT !.organs =
        [i \in DOMAIN topo.organs |->
            IF topo.organs[i].kind = kind THEN [topo.organs[i] EXCEPT !.health = h]
            ELSE topo.organs[i]]]

\* C16: for all cortex, memory and ioBridge healths in [0,1], awareness is
\* monotonically non-decreasing in each of the three inputs independently: raising one
\* health, the other two fixed, never lowers awareness.
C16_AwarenessMonotone ==
    (call.fn = "compute_awareness" /\ call.done) =>
        \A kind \in {"Cortex", "Memory", "IoBridge"} : \A h \in GridHealths :
            h >= RoleHealth(call.topo, kind) =>
                compute_awareness(WithHealth(call.topo, kind, h)) >= call.awareness

\* C16's case: the awareness of a topology with the three roles has been computed, and
\* raising its cortex health raises the awareness
C16_Witness ==
    /\ call.fn = "compute_awareness"
    /\ call.done
    /\ {call.topo.organs[i].kind : i \in DOMAIN call.topo.organs} = {"Cortex", "Memory", "IoBridge"}
    /\ \E h \in GridHealths :
          /\ h > RoleHealth(call.topo, "Cortex")
          /\ compute_awareness(WithHealth(call.topo, "Cortex", h)) > call.awareness

---------------------------------------------------------------------------
(* Properties of the program, continued (Spec) *)

\* C17: in every reachable state the awareness score held on the Bus is within [0,1].
C17_BusAwarenessInUnit ==
    /\ bus.awareness_score /= NaN
    /\ 0 <= bus.awareness_score
    /\ bus.awareness_score <= AwScale

\* C18: immediately after a successful Status-daemon blend, a successful `damage`, a
\* successful `heal` or a successful `load state`, the awareness score on the Bus is
\* the value of the awareness function on the topology as it stands after that
\* operation (for `load state`, after all lines of the file have been applied).
C18_AwarenessPublished ==
    [][ (\/ pc = "status_blend" /\ pc' = "ai"
         \/ /\ pc = "command" /\ chan /= << >> /\ chan' = Tail(chan)
            /\ pulse'.msg.text \in {"damaged", "healed"}
         \/ Loaded) =>
            bus'.awareness_score = compute_awareness(topology') ]_vars

\* C18's case: a `heal` has just succeeded and has moved the awareness away from the
\* value it had at boot
C18_Witness ==
    /\ pulse.kind = "Command"
    /\ pulse.msg.text = "healed"
    /\ pulse.id = bus.next_id
    /\ bus.awareness_score = compute_awareness(topology)
    /\ bus.awareness_score /= compute_awareness(sample_topology)

\* C19: the pulse sequence number is strictly increasing: of any two events published
\* on the Bus, by any daemons and under any log filter, the one published later carries
\* the strictly larger sequence number, and no two events share a number.  A step
\* either publishes nothing and leaves the number alone, or publishes one event that
\* carries the number after the last one.
C19_PulseSequence ==
    [][ \/ pulse' = pulse /\ bus'.next_id = bus.next_id
        \/ /\ bus'.next_id = bus.next_id + 1
           /\ pulse'.id = bus'.next_id
           /\ pulse'.id > pulse.id
           /\ pulse.id <= bus.next_id ]_vars

\* C19's case: a pulse that the log filter keeps from the output (a heartbeat under
\* CommandsOnly) has been followed by a Command pulse, which carries the next number
C19_Witness ==
    /\ heartbeat.counter = 1
    /\ ai.cycle = 0
    /\ status.counter = 0
    /\ bus.log_filter = "CommandsOnly"
    /\ pulse.kind = "Command"
    /\ pulse.id = 2
    /\ bus.next_id = 2

---------------------------------------------------------------------------
(* Properties of the functions, continued (FnSpec) *)

\* C20: overall health of an empty organ set is 1.0, and of a non-empty organ set
\* (of healths in [0,1]) is exactly the minimum health among its organs.
C20_OverallHealth ==
    (call.fn = "compute_overall_health" /\ call.done) =>
        IF call.topo.organs = << >>
        THEN call.health = Scale
        ELSE /\ \E i \in DOMAIN call.topo.organs : call.health = call.topo.organs[i].health
             /\ \A i \in DOMAIN call.topo.organs : call.health <= call.topo.organs[i].health

\* C20's case: the overall health of three organs has been computed and is the health
\* of one that is neither the first nor the last
C20_Witness ==
    /\ call.fn = "compute_overall_health"
    /\ call.done
    /\ Len(call.topo.organs) = 3
    /\ call.health = call.topo.organs[2].health
    /\ call.health < call.topo.organs[1].health
    /\ call.health < call.topo.organs[3].health

---------------------------------------------------------------------------
(* Properties of the functions, continued (FnSpec) *)

\* C21: for every score in [0,1] the health label is "ok" for score >= 0.85,
\* "degraded" for 0.60 <= score < 0.85, "impaired" for 0.35 <= score < 0.60, "critical"
\* for 0 < score < 0.35 and "failed" for score = 0; the awareness label uses the same
\* breakpoints with optimal / stable / impaired / critical / unconscious; and the label
\* the listener reports for a health score is the one classify_health gives for it.
C21_Labels ==
    (call.fn = "classify_health" /\ call.done) =>
        LET s == call.score
            label(l4, l3, l2, l1, l0) ==
                IF 100 * s >= 85 * Scale THEN l4
                ELSE IF 100 * s >= 60 * Scale THEN l3
                ELSE IF 100 * s >= 35 * Scale THEN l2
                ELSE IF s > 0 THEN l1
                ELSE l0
        IN  /\ call.health_label = label("ok", "degraded", "impaired", "critical", "failed")
            /\ call.awareness_label =
                  label("optimal", "stable", "impaired", "critical", "unconscious")
            /\ call.http_label = call.health_label

\* C21's case: a score of exactly 0.60 has been labelled "degraded" by the kernel and
\* by the listener, and "stable" as an awareness
C21_Witness ==
    /\ call.fn = "classify_health"
    /\ call.done
    /\ call.score = Dec(60000)
    /\ call.health_label = "degraded"
    /\ call.http_label = "degraded"
    /\ call.awareness_label = "stable"

\* C22, to the precision of f32: for every telemetry reading the per-role target health
\* is within 2^-24 of: Cortex 1 - min(0.6, max(0, (cpuTempC - 60)/40)); Memory
\* 1 - min(0.3, max(0, ramUsedRatio - 0.75)); IoBridge 1 - min(0.4, netPacketLoss*4);
\* the Cortex target lies in [0.4 - 2^-24, 1], the Memory target in [0.7 - 2^-24, 1]
\* and the IoBridge target in [0.6 - 2^-24, 1].
C22_Targets ==
    (call.fn = "compute_health" /\ call.done) =>
        LET d == call.cpu_temp_c - 60 * F32Deg
            r == call.ram_used_ratio
            l == call.net_packet_loss
        IN  \* 5 times the Cortex penalty: 0, 3, or 5 * d / 40
            /\ Abs(5 * (F32One - call.cortex)
                     - (IF d <= 0 THEN 0
                        ELSE IF d >= 24 * F32Deg THEN 3 * F32One
                        ELSE ((F32One \div F32Deg) \div 8) * d)) <= 5 * Eps24
            \* 4 times the Memory penalty (a ratio is at most 1.0, the cap is not met)
            /\ Abs(4 * (F32One - call.memory) - Max(0, 4 * r - 3 * F32One)) <= 4 * Eps24
            \* 5 times the IoBridge penalty: 20 * loss, or 2
            /\ Abs(5 * (F32One - call.iobridge)
                     - (IF 10 * l >= F32One THEN 2 * F32One ELSE 20 * l)) <= 5 * Eps24
            /\ 5 * call.cortex >= 2 * F32One - 5 * Eps24 /\ call.cortex <= F32One
            /\ 10 * (F32One - call.memory) <= 3 * F32One + 10 * Eps24 /\ call.memory <= F32One
            /\ 5 * call.iobridge >= 3 * F32One - 5 * Eps24 /\ call.iobridge <= F32One

\* C22 as stated: the targets are these values, and the Cortex target lies in [0.4,1],
\* the Memory target in [0.7,1] and the IoBridge target in [0.6,1].
C22_AsStated ==
    (call.fn = "compute_health" /\ call.done) =>
        LET d == call.cpu_temp_c - 60 * F32Deg
            r == call.ram_used_ratio
            l == call.net_packet_loss
        IN  /\ 5 * (F32One - call.cortex)
                  = (IF d <= 0 THEN 0
                     ELSE IF d >= 24 * F32Deg THEN 3 * F32One
                     ELSE ((F32One \div F32Deg) \div 8) * d)
            /\ 4 * (F32One - call.memory) = Max(0, 4 * r - 3 * F32One)
            /\ 5 * (F32One - call.iobridge)
                  = (IF 10 * l >= F32One THEN 2 * F32One ELSE 20 * l)
            /\ 5 * call.cortex >= 2 * F32One /\ call.cortex <= F32One
            /\ 10 * (F32One - call.memory) <= 3 * F32One /\ call.memory <= F32One
            /\ 5 * call.iobridge >= 3 * F32One /\ call.iobridge <= F32One

\* C22's case: the targets of a reading of 100 degrees C have been computed, and the
\* Cortex target, 1.0 - 0.6 in f32, is below 0.4
C22_Witness ==
    /\ call.fn = "compute_health"
    /\ call.done
    /\ call.cpu_temp_c = 100 * F32Deg
    /\ 5 * call.cortex < 2 * F32One

\* C24: when simulation intensity is Low or High, each interval-gated Simulation tick
\* changes the health of exactly one organ, the one at index (tick counter mod organ
\* count) in the organ list, by a delta that at Low is +0.02 on every 5th tick and
\* -0.01 otherwise, and at High is +0.03 on every 3rd tick and -0.04 otherwise, clamped
\* to [0,1]; all other organs are unchanged.  (The tick counter is the one the tick
\* has just incremented; a health that is not a number stays so.)
C24_SimNudge ==
    (call.fn = "sim_tick" /\ call.tick > 0) =>
        LET n == call.tick
            idx == n % Len(call.prev)
            delta == IF call.level = "Low"
                     THEN (IF n % 5 = 0 THEN Dec(2000) ELSE -Dec(1000))
                     ELSE (IF n % 3 = 0 THEN Dec(3000) ELSE -Dec(4000))
        IN  /\ Len(call.organs) = Len(call.prev)
            /\ \A j \in DOMAIN call.prev :
                  IF j = idx + 1
                  THEN /\ call.organs[j].health =
                            (IF call.prev[j].health = NaN THEN NaN
                             ELSE Min(Scale, Max(0, call.prev[j].health + delta)))
                       /\ call.organs[j].kind = call.prev[j].kind
                  ELSE call.organs[j] = call.prev[j]

\* C24's case: the 5th tick at Low has raised the health of the organ at index 5 mod 3
\* by 0.02
C24_Witness ==
    /\ call.fn = "sim_tick"
    /\ call.level = "Low"
    /\ call.tick = 5
    /\ call.organs[3].health = call.prev[3].health + Dec(2000)

---------------------------------------------------------------------------
(* Properties of the program, continued (Spec) *)

\* C23: while simulation intensity is Off, a Simulation-daemon tick is a no-op on shared
\* state: it changes no organ's health, does not change the bus awareness score or the
\* simulation intensity, and publishes no event (the pulse sequence number is unchanged).
C23_SimOffNoOp ==
    [][ (pc = "sim" /\ pc' = "command" /\ bus.sim_level = "Off") =>
          /\ topology' = topology
          /\ bus'.awareness_score = bus.awareness_score
          /\ bus'.sim_level = "Off"
          /\ bus'.next_id = bus.next_id
          /\ pulse' = pulse ]_vars

\* C23's case: a Simulation tick has passed its interval gate with the intensity Off
\* (set by a `sim level off` command) and has returned
C23_Witness ==
    /\ pc = "command"
    /\ sim.last_run = now
    /\ sim.tick = 1
    /\ bus.sim_level = "Off"
    /\ pulse.kind = "Heartbeat"
    /\ topology = sample_topology
    /\ events = 1
    /\ chan = << >>
    /\ stdin_open
    /\ http.pc = "bind"

\* C25: simulation intensity changes only through (a) an AI-policy tick that observes
\* awareness in the critical band, which sets it to Off, or (b) a `sim level
\* <off|low|high>` command, which sets it to the named level; Heartbeat, Status and
\* Simulation ticks and every other command leave it unchanged (so once the AI reflex
\* has forced it Off it stays Off until a `sim level low` or `sim level high` command
\* is processed).
C25_SimLevelWriters ==
    [][ LET a == IF topo_poisoned THEN bus.awareness_score ELSE compute_awareness(topology)
            ai_reflex == /\ pc = "ai"
                         /\ ai'.cycle = ai.cycle + 1
                         /\ a /= NaN /\ 0 < a /\ 100 * a < 35 * AwScale
            sim_level_command == /\ pc = "command"
                                 /\ chan /= << >>
                                 /\ chan' = Tail(chan)
                                 /\ Len(Head(chan)) > 2
                                 /\ Head(chan)[1] = W("sim")
                                 /\ Head(chan)[2] = W("level")
                                 /\ Head(chan)[3] \in {W("off"), W("low"), W("high"), W("HIGH")}
            named == CASE Head(chan)[3] = W("off") -> "Off"
                       [] Head(chan)[3] = W("low") -> "Low"
                       [] OTHER -> "High"
        IN  /\ bus'.sim_level /= bus.sim_level =>
                 \/ ai_reflex /\ bus'.sim_level = "Off"
                 \/ sim_level_command
            /\ sim_level_command => bus'.sim_level = named ]_vars

\* C25's case: a `sim level HIGH` command has been processed and the intensity, Low
\* since the start, is High
C25_Witness ==
    /\ pulse.kind = "Command"
    /\ pulse.msg.text = "simulation level set"
    /\ pulse.msg.level = "High"
    /\ pulse.id = bus.next_id
    /\ bus.sim_level = "High"

\* C26: an AI-policy daemon tick never changes any organ's health: the topology is
\* identical before and after the tick, whatever the awareness band.
C26_AiLeavesTopology ==
    [][ (pc = "ai" /\ pc' = "sim") => topology' = topology ]_vars

\* C26's case: an AI-policy tick has passed its gate with the awareness in the critical
\* band, has published its policy, and the organs are as damaged as before
C26_Witness ==
    /\ pc = "sim"
    /\ ai.last_run = now
    /\ ai.cycle > 0
    /\ pulse.kind = "Ai"
    /\ pulse.msg.awareness_label = "critical"
    /\ pulse.id = bus.next_id
    /\ topology.organs[1].health = 0
    /\ topology.organs[2].health = 0

\* C27: `GET /metrics` answers HTTP 503 with the "metrics not yet available" error for
\* every request served before the first Status-daemon tick has completed, and answers
\* with the metrics JSON for every request served after it; once a snapshot has been
\* stored it is never cleared, so a 503 never follows a successful metrics response.
C27_MetricsAvailability ==
    [][ LET completed == \/ status.counter > 1
                         \/ status.counter = 1 /\ pc \notin {"status_lock", "status_blend"}
        IN  /\ (http.pc = "metrics" /\ http'.pc = "send") =>
                  IF completed
                  THEN http'.reply.code = 200 /\ http'.reply.body = "metrics"
                  ELSE http'.reply.code = 503
                       /\ http'.reply.body = "metrics not yet available"
            /\ metrics_snapshot /= << >> => metrics_snapshot' /= << >> ]_vars

\* C28: if the listener cannot bind its network address at startup, the process aborts
\* before the scheduler starts (so no daemon tick is ever executed in a run where the
\* bind failed): the step in which the bind fails ends the process.
C28_BindFailureAborts ==
    [][ (http.pc = "bind" /\ http'.pc = "dead") => pc' = "exited" ]_vars

\* C29: when the file write of `save state` or the file read of `load state` fails, the
\* command emits an error string as a Command pulse, every organ health and the bus
\* awareness score are unchanged, and the scheduler continues with the next queued
\* command.
C29_IoFailure ==
    [][ (/\ pc = "command"
         /\ chan /= << >>
         /\ chan' = Tail(chan)
         /\ Head(chan) \in { << W("save"), W("state") >>, << W("load"), W("state") >> }) =>
          /\ bus'.next_id = bus.next_id + 1
          /\ pulse'.kind = "Command"
          /\ pulse'.id = bus'.next_id
          /\ pulse'.msg.text \in
                IF Head(chan)[1] = W("save")
                THEN {"state saved to aion_state.txt", "failed to save state",
                      "failed to lock topology for save"}
                ELSE {"state loaded from aion_state.txt", "failed to load state",
                      "failed to lock topology for load"}
          /\ pulse'.msg.text \in {"failed to save state", "failed to load state"} =>
                /\ topology' = topology
                /\ bus'.awareness_score = bus.awareness_score
                /\ pc' = "command" ]_vars

\* C29's case: the read of `load state` has failed, the error has been published, the
\* organs are the sample's, and the command queued behind it is next
C29_Witness ==
    /\ pc = "command"
    /\ pulse.kind = "Command"
    /\ pulse.msg.text = "failed to load state"
    /\ pulse.id = bus.next_id
    /\ topology = sample_topology
    /\ chan = << << W("status") >> >>

\* C30: the read-only commands `status`, `topology`, `nodes`, `organs`, `peripherals`,
\* `health`, `awareness`, `alerts`, `mode`, `metrics`, `sim status` and `help` leave
\* every organ health, the metrics snapshot, the simulation intensity, the log filter
\* and the bus awareness score unchanged; their only effect on shared state is
\* publishing one Command pulse.
C30_ReadOnlyCommands ==
    [][ (/\ pc = "command"
         /\ chan /= << >>
         /\ chan' = Tail(chan)
         /\ \/ Head(chan) = << W("sim"), W("status") >>
            \/ /\ Len(Head(chan)) = 1
               /\ Head(chan)[1] \in { W(c) : c \in {"status", "topology", "nodes", "organs",
                                                    "peripherals", "health", "awareness",
                                                    "alerts", "mode", "metrics", "help"} }) =>
          /\ topology' = topology
          /\ metrics_snapshot' = metrics_snapshot
          /\ bus' = [bus EXCEPT !.next_id = @ + 1]
          /\ pulse'.kind = "Command"
          /\ pulse'.id = bus'.next_id
          /\ file' = file
          /\ UNCHANGED << topo_owner, topo_poisoned, metrics_poisoned >> ]_vars

\* C30's case: an `awareness` command has been answered after a `damage` command
\* changed the organs; the score on the bus is the one the damage left
C30_Witness ==
    /\ pc = "command"
    /\ pulse.kind = "Command"
    /\ pulse.msg.text = "awareness index"
    /\ pulse.id = bus.next_id
    /\ topology /= sample_topology
    /\ bus.awareness_score = pulse.msg.awareness

\* C31: the number of nodes and of organs, their order, and each organ's identity, kind
\* and owning node are in every reachable state those of the sample topology: no
\* daemon tick, command or listener request adds, removes, reorders or re-kinds an
\* organ or a node (the healths alone change).
C31_TopologyShape ==
    /\ topology.nodes = sample_topology.nodes
    /\ Len(topology.organs) = Len(sample_topology.organs)
    /\ \A i \in DOMAIN topology.organs :
          /\ topology.organs[i].id = sample_topology.organs[i].id
          /\ topology.organs[i].kind = sample_topology.organs[i].kind
          /\ topology.organs[i].node = sample_topology.organs[i].node

\* C31's case: a `load state` has rewritten the health of every organ and a Simulation
\* tick has nudged one since
C31_Witness ==
    /\ pulse.kind = "Sim"
    /\ sim.tick > 0
    /\ \A i \in DOMAIN topology.organs :
          topology.organs[i].health /= sample_topology.organs[i].health

\* C32: in every scheduler iteration each daemon's tick is invoked exactly once, in
\* the order Heartbeat, Status, AI-policy, Simulation, Command, and all of them with the
\* same `now`: the scheduler passes from one tick to the next one of the list only (the
\* Status tick in up to three steps, the loop ending in the Command tick of a `quit`),
\* the clock is read between the sleep and the Heartbeat tick and nowhere else, a
\* daemon's state changes in its own tick alone, and a tick that runs stamps this
\* `now` as its last run.
C32_TickOrder ==
    [][ /\ pc' /= pc =>
              << pc, pc' >> \in { << "heartbeat", "status" >>,
                                  << "status", "status_lock" >>, << "status", "ai" >>,
                                  << "status_lock", "status_blend" >>,
                                  << "status_lock", "ai" >>,
                                  << "status_blend", "ai" >>,
                                  << "ai", "sim" >>, << "sim", "command" >>,
                                  << "command", "sleep" >>, << "command", "exited" >>,
                                  << "sleep", "heartbeat" >> }
        /\ now' /= now => pc = "sleep" /\ pc' = "heartbeat"
        /\ heartbeat' /= heartbeat => pc = "heartbeat" /\ heartbeat'.last_run = now
        /\ status' /= status => pc \in {"status", "status_lock", "status_blend"}
        /\ status'.last_run /= status.last_run => pc = "status" /\ status'.last_run = now
        /\ ai' /= ai => pc = "ai" /\ ai'.last_run = now
        /\ sim' /= sim => pc = "sim" /\ sim'.last_run = now
        /\ (chan /= << >> /\ chan' = Tail(chan)) => pc = "command" ]_vars

\* C32's case: in one iteration the Heartbeat, the AI-policy and the Simulation daemon
\* have all run, in this order and with the `now` of the iteration, and the Command
\* tick is next
C32_Witness ==
    /\ pc = "command"
    /\ now > 0
    /\ heartbeat.last_run = now
    /\ ai.last_run = now
    /\ sim.last_run = now
    /\ pulse.kind = "Sim"
    /\ pulse.id = bus.next_id
    /\ bus.next_id >= 3

\* C33: each interval-gated daemon (Heartbeat 1 s, Status 5 s, AI-policy 2 s,
\* Simulation 2.5 s) performs its work on a tick only if at least its own interval has
\* elapsed since it last performed work (or since construction), so two consecutive
\* executions of a daemon are never closer than its interval and its first execution
\* is no earlier than one interval after startup: a tick that counts an execution found
\* the interval elapsed and stamps `now`, so the n-th execution is no earlier than n
\* intervals after startup, and a tick that finds the gate closed changes nothing.
C33_IntervalGates ==
    [][ /\ heartbeat'.counter /= heartbeat.counter =>
              /\ now - heartbeat.last_run >= HeartbeatInterval
              /\ heartbeat'.last_run = now
        /\ status'.counter /= status.counter =>
              /\ now - status.last_run >= StatusInterval
              /\ status'.last_run = now
        /\ ai'.cycle /= ai.cycle =>
              /\ now - ai.last_run >= AiInterval
              /\ ai'.last_run = now
        /\ sim'.tick /= sim.tick =>
              /\ now - sim.last_run >= SimInterval
              /\ sim'.last_run = now
        /\ heartbeat'.counter * HeartbeatInterval <= heartbeat'.last_run
        /\ status'.counter * StatusInterval <= status'.last_run
        /\ ai'.cycle * AiInterval <= ai'.last_run
        /\ sim'.tick * SimInterval <= sim'.last_run
        /\ (pc = "heartbeat" /\ now - heartbeat.last_run < HeartbeatInterval) =>
              UNCHANGED << heartbeat, bus, pulse, topology, metrics_snapshot >>
        /\ (pc = "status" /\ now - status.last_run < StatusInterval) =>
              UNCHANGED << status, telemetry, bus, pulse, topology, metrics_snapshot >>
        /\ (pc = "ai" /\ now - ai.last_run < AiInterval) =>
              UNCHANGED << ai, bus, pulse, topology, metrics_snapshot >>
        /\ (pc = "sim" /\ now - sim.last_run < SimInterval) =>
              UNCHANGED << sim, bus, pulse, topology, metrics_snapshot >> ]_vars

\* C33's case: 3 s after startup the Simulation daemon has run for the first time (its
\* gate was closed at 1 s and at 2 s), the Heartbeat daemon for the third time, and the
\* AI-policy daemon, which ran at 2 s, has found its gate closed
C33_Witness ==
    /\ pc = "command"
    /\ now = 3000
    /\ heartbeat.counter = 3
    /\ heartbeat.last_run = now
    /\ ai.cycle = 1
    /\ ai.last_run = 2000
    /\ sim.tick = 1
    /\ sim.last_run = now
    /\ status.counter = 0

\* C34: the listener never holds the topology guard or the metrics-snapshot guard while
\* it writes a response: in the step that sends the response of a request, and in the
\* state in which the response is ready to be sent, the listener holds neither guard
\* (nor the guard of the working memory).
C34_RespondWithoutGuards ==
    [][ /\ response' /= response =>
              /\ topo_owner /= "http" /\ topo_owner' /= "http"
              /\ http.holds = "none" /\ http'.holds = "none"
        /\ http.pc = "send" => topo_owner /= "http" /\ http.holds = "none" ]_vars

\* C34's case: the response to a `/metrics` request, built from a stored snapshot
\* under the guard, has been sent while the Status daemon holds the topology guard
C34_Witness ==
    /\ http.pc = "sent"
    /\ http.url = "/metrics"
    /\ response.code = 200
    /\ topo_owner = "sched"

\* C35: the Bus's log filter, simulation intensity, awareness score and pulse counter
\* are read and written only by the scheduler thread; the producer and the listener
\* thread never touch them.  A step that changes the Bus is a step of a daemon tick (it
\* leaves the listener where it stands, and the queue and the input as they are but for
\* the line a Command tick takes); a step of the producer or of the listener leaves the
\* Bus as it is; and what the listener reads for a response is a function of the
\* topology and of the metrics snapshot, whatever the Bus holds.
C35_BusOwnedByScheduler ==
    [][ /\ bus' /= bus =>
              /\ pc \in {"heartbeat", "status_lock", "status_blend", "ai", "sim", "command"}
              /\ http' = http
              /\ response' = response
              /\ stdin_open' = stdin_open
              /\ chan' = chan \/ (pc = "command" /\ chan /= << >> /\ chan' = Tail(chan))
        /\ (http' /= http \/ response' /= response) => bus' = bus /\ pulse' = pulse
        /\ (stdin_open' /= stdin_open \/ Len(chan') > Len(chan)) =>
              bus' = bus /\ pulse' = pulse
        /\ (http.pc = "read_health" /\ http' /= http) =>
              http'.health_score = compute_overall_health(topology)
        /\ (http.pc = "read_awareness" /\ http' /= http) =>
              /\ http'.awareness_score = compute_awareness(topology)
              /\ http'.awareness_label = describe_awareness(compute_awareness(topology))
        /\ (http.pc = "metrics" /\ http' /= http) =>
              http'.reply = IF metrics_snapshot = << >>
                            THEN [code |-> 503, body |-> "metrics not yet available"]
                            ELSE [code |-> 200, body |-> "metrics",
                                  metrics |-> metrics_snapshot[1]] ]_vars

\* C35's case: a `damage` has written the awareness score of the Bus, a Simulation
\* nudge has changed the topology since, and the listener has answered `/status` with
\* the awareness of the topology, which is not the score the Bus holds
C35_Witness ==
    /\ http.pc = "sent"
    /\ http.url = "/status"
    /\ response.code = 200
    /\ sim.tick > 0
    /\ bus.awareness_score /= AwScale
    /\ response.snap.awareness_score /= bus.awareness_score
    /\ response.snap.awareness_score = compute_awareness(topology)

\* C36: the scheduler and the listener can never deadlock on the topology, the
\* metrics-snapshot and the working-memory guards.  No thread holds the topology guard
\* and the metrics guard at the same time (the listener holds the topology guard only
\* while it reads the two scores, the scheduler across steps only in the blend of a
\* Status tick), no thread acquires the topology guard while it holds the guard of the
\* working memory, every tick and every request has released its guards when it
\* finishes, and no thread waits for ever: a listener that holds a guard has a next
\* step, a scheduler that holds the topology guard has a next step unless the listener
\* holds the working memory, and a thread that finds a guard taken finds it held by the
\* other thread.
C36_NoDeadlock ==
    /\ topo_owner = "http" <=> http.pc \in {"read_health", "read_awareness"}
    /\ topo_owner = "sched" <=> pc = "status_blend"
    /\ http.holds = "metrics" <=> http.pc = "metrics"
    /\ http.holds = "memory" <=> http.pc = "mem"
    /\ ~(topo_owner = "http" /\ http.holds /= "none")
    /\ http.pc \in {"bind", "idle", "send", "sent", "dead"} =>
          topo_owner /= "http" /\ http.holds = "none"
    /\ pc \in {"heartbeat", "status", "ai", "sim", "command", "sleep", "exited"} =>
          topo_owner /= "sched"
    /\ Running =>
          /\ (topo_owner = "http" \/ http.holds /= "none") =>
                ENABLED (HttpReadHealth \/ HttpReadAwareness \/ HttpMetrics \/ HttpMem)
          /\ topo_owner = "sched" =>
                \/ ENABLED (StatusBlend \/ StatusPublish)
                \/ http.holds = "memory"
          /\ http.pc = "lock" => ENABLED HttpLock \/ topo_owner = "sched"
          /\ pc \in {"status", "status_lock", "ai", "sim"} =>
                \/ ENABLED (StatusBegin \/ StatusLock \/ AiTick \/ SimTick)
                \/ topo_owner = "http"
                \/ http.holds /= "none"

\* C36's case: the Status daemon, which holds the topology guard at the end of its
\* blend, waits for the working memory while the listener holds it for a `/mem` request
C36_Witness ==
    /\ pc = "status_blend"
    /\ status.idx > Len(topology.organs)
    /\ topo_owner = "sched"
    /\ http.pc = "mem"
    /\ http.holds = "memory"

\* C37: a Simulation tick never changes the awareness score of the bus, even when it
\* changes an organ's health; consequently the bus awareness (the one `status` and
\* `sim status` report) may differ from the awareness computed from the current
\* topology (the one `awareness` and `/status` report) until the next Status blend,
\* `damage`, `heal` or `load state`.  The steps that write the score of the bus are
\* those of a Status blend, a `damage`, a `heal` and a `load state`, and `status` and
\* `sim status` report the score of the bus while `awareness` reports the one of the
\* topology.
C37_SimLeavesBusAwareness ==
    [][ /\ pc = "sim" => bus'.awareness_score = bus.awareness_score
        /\ bus'.awareness_score /= bus.awareness_score =>
              \/ pc = "status_blend" /\ pc' = "ai"
              \/ /\ pc = "command"
                 /\ chan /= << >>
                 /\ Arm(Head(chan)) \in {"damage", "heal", "load state"}
        /\ (pc = "command" /\ chan /= << >> /\ chan' = Tail(chan) /\ ~topo_poisoned) =>
              /\ Arm(Head(chan)) \in {"status", "sim status"} =>
                    pulse'.msg.awareness = bus.awareness_score
              /\ Arm(Head(chan)) = "awareness" =>
                    pulse'.msg.awareness = compute_awareness(topology) ]_vars

\* C37's case: a `damage` wrote the score of the bus, a Simulation tick has lowered an
\* organ since, and a `status` command reports the score of the bus, which is no
\* longer the awareness of the topology
C37_Witness ==
    /\ pc = "command"
    /\ sim.tick > 0
    /\ sim.last_run = now
    /\ pulse.kind = "Command"
    /\ pulse.msg.text = "manual status"
    /\ pulse.msg.awareness = bus.awareness_score
    /\ bus.awareness_score /= AwScale
    /\ bus.awareness_score /= compute_awareness(topology)

---------------------------------------------------------------------------
(* Properties of the functions, continued (FnSpec) *)

\* C38: with the three-organ sample topology and intensity High, the organ chosen and
\* the sign of the delta are both determined by the tick counter mod 3, so the
\* Simulation daemon only ever raises the organ at index 0 (Cortex, +0.03) and only
\* ever lowers the organs at index 1 and 2 (Memory and IoBridge, -0.04): a tick whose
\* counter is a multiple of 3 changes the Cortex alone, upwards, and every other tick
\* changes the Memory or the IoBridge alone, downwards.
C38_HighPattern ==
    (call.fn = "sim_tick" /\ call.level = "High" /\ call.tick > 0) =>
        LET n == call.tick
            to(h, delta) == IF h = NaN THEN NaN ELSE Min(Scale, Max(0, h + delta))
        IN  /\ Len(call.prev) = 3
            /\ << call.organs[1].kind, call.organs[2].kind, call.organs[3].kind >>
                  = << "Cortex", "Memory", "IoBridge" >>
            /\ call.organs[1].health >= call.prev[1].health
            /\ call.organs[2].health <= call.prev[2].health
            /\ call.organs[3].health <= call.prev[3].health
            /\ n % 3 = 0 =>
                  /\ call.organs[1].health = to(call.prev[1].health, Dec(3000))
                  /\ call.organs[2] = call.prev[2]
                  /\ call.organs[3] = call.prev[3]
            /\ n % 3 = 1 =>
                  /\ call.organs[2].health = to(call.prev[2].health, -Dec(4000))
                  /\ call.organs[1] = call.prev[1]
                  /\ call.organs[3] = call.prev[3]
            /\ n % 3 = 2 =>
                  /\ call.organs[3].health = to(call.prev[3].health, -Dec(4000))
                  /\ call.organs[1] = call.prev[1]
                  /\ call.organs[2] = call.prev[2]

\* C38's case: the 6th tick at High has raised the Cortex by 0.03, after the 4th and
\* the 5th lowered the Memory and the IoBridge
C38_Witness ==
    /\ call.fn = "sim_tick"
    /\ call.level = "High"
    /\ call.tick = 6
    /\ call.organs[1].health = call.prev[1].health + Dec(3000)
    /\ call.organs[2].health /= NaN
    /\ call.organs[2].health < sample_topology.organs[2].health
    /\ call.organs[3].health < sample_topology.organs[3].health

\* C39: `damage <kind> a` has exactly the same effect on organ health and on the bus
\* awareness as `heal <kind> -a`, for every numeric amount a; neither command
\* restricts the sign or the magnitude of the amount (the health that results is the
\* one before less a, clamped to [0,1], whatever a is).
C39_DamageIsNegativeHeal ==
    (call.fn = "adjust" /\ call.done) =>
        /\ call.damaged.organs = call.healed.organs
        /\ call.damaged.awareness = call.healed.awareness
        /\ \A i \in DOMAIN call.organs :
              IF /\ call.organs[i].kind = parse_organ_kind(W(call.kind))[1]
                 /\ \A j \in 1..(i - 1) : call.organs[j].kind /= call.organs[i].kind
              THEN /\ call.damaged.organs[i].health =
                        (IF call.organs[i].health = NaN THEN NaN
                         ELSE Min(Scale, Max(0, call.organs[i].health - Dec(call.amount))))
                   /\ call.damaged.awareness =
                        << compute_awareness([organs |-> call.damaged.organs]) >>
              ELSE call.damaged.organs[i] = call.organs[i]

\* C39's case: a `damage` of -0.5 has raised the Cortex from 0 to 0.5, as the `heal` of
\* 0.5 has, and both write the same awareness
C39_Witness ==
    /\ call.fn = "adjust"
    /\ call.done
    /\ call.kind = "cortex"
    /\ call.amount = -50000
    /\ call.organs[1].health = 0
    /\ call.damaged.organs[1].health = Dec(50000)
    /\ call.healed.organs[1].health = Dec(50000)
    /\ call.healed.awareness /= << >>
    /\ call.healed.awareness = call.damaged.awareness

---------------------------------------------------------------------------
(* Properties of the program, continued (Spec) *)

\* C40: with the default simulated telemetry backend every per-role target is 1.0, so
\* a Status blend never lowers a health; hence, from any reachable state, if the
\* simulation stays Off and no `damage`, `heal` or `load state` is processed and the
\* scheduler keeps running, awareness eventually reaches the optimal band (>= 0.85)
\* and stays there.  What carries the awareness there is that every Status blend
\* brings the health of each role's organ closer to 1.0, to three quarters of the
\* distance it had: the targets of a simulated reading are 1.0, and the health a blend
\* leaves is a number no lower than the one it found and no further from 1.0 than
\* three quarters of the distance before.
C40_BlendReachesOptimal ==
    [][ /\ (pc = "status" /\ status'.counter /= status.counter
              /\ bus.telemetry_mode = "Simulated") =>
              \A kind \in {"Cortex", "Memory", "IoBridge"} :
                  blend_target(kind, status'.reading) = Scale
        /\ (pc = "status_blend" /\ status'.idx = status.idx + 1
              /\ bus.telemetry_mode = "Simulated") =>
              LET before == topology.organs[status.idx].health
                  after == topology'.organs[status.idx].health
              IN  /\ after /= NaN
                  /\ before /= NaN
                  /\ after >= before
                  /\ after <= Scale
                  /\ AlphaDen * (Scale - after) <= (AlphaDen - AlphaNum) * (Scale - before)
      ]_vars

=============================================================================
